---- MODULE Spec2Model ----
(***************************************************************************)
(* PNG-fallback rasterization pipeline of marimo's PDF export:             *)
(*   marimo/_server/export/_pdf_raster.py          (classifier, orderer,   *)
(*                                                  normalizer, driver,    *)
(*                                                  coordinator)           *)
(*   marimo/_server/export/_html_asset_server.py   (static asset server)   *)
(*   marimo/_server/export/_live_notebook_server.py (live notebook server) *)
(*                                                                         *)
(* Text is modelled as a sequence of tokens.  A token is a run of          *)
(* characters ("<", "&lt;", "marimo-", "anywidget", a MIME type, ...);     *)
(* the tokens are chosen so that a marker occurs in the concatenated       *)
(* characters exactly when its token sequence occurs in the token          *)
(* sequence.                                                               *)
(***************************************************************************)
EXTENDS Integers, Sequences, FiniteSets, TLC

(***************************************************************************)
(* Bounds of the model.                                                    *)
(***************************************************************************)
\* cells of a session view
MaxCells == 3
\* parts of a MIME bundle drawn for the classifier
MaxParts == 2
\* health-poll iterations before the startup deadline must have passed
MaxPolls == 2
\* requests handled by the static server, calls of set_html
MaxRequests == 2
MaxSetHtml == 2
\* the largest scale option tried, in tenths
MaxScale == 40
\* bytes of a screenshot handed from the driver to the injector
MaxBytes == 3
\* outputs of a notebook cell
MaxOutputs == 2

(***************************************************************************)
(* _raster_mime.py and the marker tables of _pdf_raster.py                 *)
(***************************************************************************)
TEXT_HTML == "text/html"
TEXT_PLAIN == "text/plain"
TEXT_MARKDOWN == "text/markdown"
VEGALITE_V5 == "application/vnd.vegalite.v5+json"
VEGALITE_V6 == "application/vnd.vegalite.v6+json"
VEGA_MIME_TYPES ==
    { VEGALITE_V5, "application/vnd.vega.v5+json",
      VEGALITE_V6, "application/vnd.vega.v6+json" }
MIMEBUNDLE_TYPE == "application/vnd.marimo+mimebundle"
\* a MIME type that is neither textual nor a chart grammar
IMAGE_SVG == "image/svg+xml"

MARIMO_COMPONENT_MARKERS == { <<"<", "marimo-">>, <<"&lt;", "marimo-">> }
ANYWIDGET_COMPONENT_MARKERS ==
    { <<"<", "marimo-", "anywidget">>, <<"&lt;", "marimo-", "anywidget">> }
EMBEDDED_VEGA_MARKERS == { <<m>> : m \in VEGA_MIME_TYPES }

(***************************************************************************)
(* Python values.  Every value is a record                                 *)
(*   k     : "none" | "str" | "list" | "dict" | "obj"                      *)
(*   items : for a str its one item, for a list its items; an item is      *)
(*           [isstr, s] with s the token sequence of a string item         *)
(*   parts : for a dict its (key, value) pairs in insertion order          *)
(* "obj" is any other object (a number, a nested chart specification).     *)
(***************************************************************************)
PyNone == [k |-> "none", items |-> <<>>, parts |-> <<>>]
PyObj == [k |-> "obj", items |-> <<>>, parts |-> <<>>]
PyStr(s) == [k |-> "str", items |-> <<[isstr |-> TRUE, s |-> s]>>, parts |-> <<>>]
PyList(items) == [k |-> "list", items |-> items, parts |-> <<>>]
PyDict(parts) == [k |-> "dict", items |-> <<>>, parts |-> parts]
StrItem(s) == [isstr |-> TRUE, s |-> s]
ObjItem == [isstr |-> FALSE, s |-> <<>>]
Part(mime, val) == [mime |-> mime, val |-> val]

\* str.__contains__: marker in value
InStr(marker, value) ==
    \E i \in 1..(Len(value) + 1 - Len(marker)) :
        SubSeq(value, i, i + Len(marker) - 1) = marker

\* dict.get(key): [found, val]
DictGet(parts, key) ==
    IF \E i \in 1..Len(parts) : parts[i].mime = key
    THEN [found |-> TRUE,
          val |-> parts[CHOOSE i \in 1..Len(parts) : parts[i].mime = key].val]
    ELSE [found |-> FALSE, val |-> PyNone]

\* dict[key] = val: an existing key keeps its place, a new key goes last
DictSet(parts, key, val) ==
    IF \E i \in 1..Len(parts) : parts[i].mime = key
    THEN [i \in 1..Len(parts) |->
            IF parts[i].mime = key THEN Part(key, val) ELSE parts[i]]
    ELSE Append(parts, Part(key, val))

(***************************************************************************)
(* json.loads on a token sequence.  The JSON texts of the model are        *)
(*   value  ::= string | "null" | number | "[" "]" | object                *)
(*   object ::= "{" "}" | "{" member ("," member)* "}"                     *)
(*   member ::= string ":" (string | "null" | number)                      *)
(*   string ::= QUOTE token* QUOTE                                         *)
(*   number ::= "1" | LONG_INT                                             *)
(* and every other token sequence is a JSONDecodeError.  LONG_INT is an    *)
(* integer literal of more digits than int() converts: the decoder's       *)
(* int(...) raises ValueError on it, which is not a JSONDecodeError.       *)
(***************************************************************************)
QUOTE == "\""

LONG_INT == "99..9"

NoError == "none"

\* the index of the QUOTE closing the string opened at i, or 0
ClosingQuote(t, i) ==
    IF \E j \in (i + 1)..Len(t) : t[j] = QUOTE
    THEN CHOOSE j \in (i + 1)..Len(t) :
            t[j] = QUOTE /\ \A l \in (i + 1)..(j - 1) : t[l] # QUOTE
    ELSE 0

\* a member value at i: [ok, next, val, error]
JsonScalar(t, i) ==
    IF i > Len(t)
    THEN [ok |-> FALSE, next |-> i, val |-> PyNone, error |-> "JSONDecodeError"]
    ELSE IF t[i] = "null"
    THEN [ok |-> TRUE, next |-> i + 1, val |-> PyNone, error |-> NoError]
    ELSE IF t[i] = "1"
    THEN [ok |-> TRUE, next |-> i + 1, val |-> PyObj, error |-> NoError]
    ELSE IF t[i] = LONG_INT
    THEN [ok |-> FALSE, next |-> i, val |-> PyNone, error |-> "ValueError"]
    ELSE IF t[i] = QUOTE /\ ClosingQuote(t, i) # 0
    THEN [ok |-> TRUE, next |-> ClosingQuote(t, i) + 1,
          val |-> PyStr(SubSeq(t, i + 1, ClosingQuote(t, i) - 1)),
          error |-> NoError]
    ELSE [ok |-> FALSE, next |-> i, val |-> PyNone, error |-> "JSONDecodeError"]

\* a text that is no JSON
JsonBad == [ok |-> FALSE, parts |-> <<>>, error |-> "JSONDecodeError"]

RECURSIVE JsonMembers(_, _, _)
\* the members from i on, i at a key: [ok, parts, error]
JsonMembers(t, i, acc) ==
    IF i > Len(t) \/ t[i] # QUOTE \/ ClosingQuote(t, i) = 0
    THEN JsonBad
    ELSE
        LET close == ClosingQuote(t, i)
            key == SubSeq(t, i + 1, close - 1)
            v == JsonScalar(t, close + 2)
        IN  IF Len(key) # 1 \/ close + 1 > Len(t) \/ t[close + 1] # ":"
            THEN JsonBad
            ELSE IF ~v.ok
            THEN [JsonBad EXCEPT !.error = v.error]
            ELSE IF v.next = Len(t) /\ t[v.next] = "}"
            THEN [ok |-> TRUE, parts |-> DictSet(acc, key[1], v.val),
                  error |-> NoError]
            ELSE IF v.next < Len(t) /\ t[v.next] = ","
            THEN JsonMembers(t, v.next + 1, DictSet(acc, key[1], v.val))
            ELSE JsonBad

\* the result of json.loads on an object text, from that of its members
JsonObject(m) ==
    [ok |-> m.ok, val |-> IF m.ok THEN PyDict(m.parts) ELSE PyNone,
     error |-> m.error]

\* the result of json.loads on a text of n tokens that starts with the
\* scalar v: text after the scalar is a JSONDecodeError
JsonWhole(v, n) ==
    IF v.ok /\ v.next # n + 1
    THEN [ok |-> FALSE, val |-> PyNone, error |-> "JSONDecodeError"]
    ELSE [ok |-> v.ok, val |-> v.val, error |-> v.error]

\* json.loads: [ok, val, error]; ~ok is an exception, error names its type
json_loads(t) ==
    IF t = <<>>
    THEN [ok |-> FALSE, val |-> PyNone, error |-> "JSONDecodeError"]
    ELSE IF t = <<"{", "}">>
    THEN [ok |-> TRUE, val |-> PyDict(<<>>), error |-> NoError]
    ELSE IF t[1] = "{"
    THEN JsonObject(JsonMembers(t, 2, <<>>))
    ELSE IF t = <<"[", "]">>
    THEN [ok |-> TRUE, val |-> PyList(<<>>), error |-> NoError]
    ELSE JsonWhole(JsonScalar(t, 1), Len(t))

(***************************************************************************)
(* Target Classifier                                                       *)
(***************************************************************************)
_contains_marker(content, markers) ==
    LET _contains(value) == \E marker \in markers : InStr(marker, value)
    IN  IF content.k = "list"
        THEN \E j \in 1..Len(content.items) :
                content.items[j].isstr /\ _contains(content.items[j].s)
        ELSE content.k = "str" /\ _contains(content.items[1].s)

\* faulty variant of _dedupe_strings: tuple(values); C9 does not hold of it
_dedupe_strings_keeps_all(values) == values

RECURSIVE _dedupe_strings(_)
\* tuple(dict.fromkeys(values)): first occurrences, in order
_dedupe_strings(values) ==
    IF values = <<>> THEN <<>>
    ELSE LET front == _dedupe_strings(SubSeq(values, 1, Len(values) - 1))
             last == values[Len(values)]
         IN  IF \E i \in 1..Len(front) : front[i] = last
             THEN front ELSE Append(front, last)

\* lines 121-126 on the outcome of json.loads: the except clause catches
\* JSONDecodeError alone
LoadedBundle(loaded) ==
    IF loaded.ok /\ loaded.val.k = "dict"
    THEN [ok |-> TRUE, parts |-> loaded.val.parts, raised |-> NoError]
    ELSE [ok |-> FALSE, parts |-> <<>>,
          raised |-> IF loaded.error = "JSONDecodeError"
                     THEN NoError ELSE loaded.error]

\* [ok, parts, raised]; ~ok is the None result, or, with raised other than
\* NoError, the exception of json.loads that the except clause lets through
_load_mimebundle(data) ==
    IF data.k = "dict"
    THEN [ok |-> TRUE, parts |-> data.parts, raised |-> NoError]
    ELSE IF data.k = "str"
    THEN LoadedBundle(json_loads(data.items[1].s))
    ELSE [ok |-> FALSE, parts |-> <<>>, raised |-> NoError]

\* faulty variant of _should_rasterize_output: the component marker is looked
\* for in text/html only; C8 does not hold of it
_should_rasterize_output_html_only(mimetype, data) ==
    IF mimetype \in VEGA_MIME_TYPES THEN TRUE
    ELSE IF mimetype \in {TEXT_HTML}
    THEN _contains_marker(data, MARIMO_COMPONENT_MARKERS)
    ELSE FALSE

_should_rasterize_output(mimetype, data) ==
    IF mimetype \in VEGA_MIME_TYPES THEN TRUE
    ELSE IF mimetype \in {TEXT_HTML, TEXT_PLAIN, TEXT_MARKDOWN}
    THEN _contains_marker(data, MARIMO_COMPONENT_MARKERS)
    ELSE FALSE

\* the expectations one (mimetype, content) pair appends, in order
PartExpects(mimetype, content) ==
    (IF _contains_marker(content, ANYWIDGET_COMPONENT_MARKERS)
     THEN <<"anywidget">> ELSE <<>>)
    \o
    (IF mimetype \in VEGA_MIME_TYPES
        \/ _contains_marker(content, EMBEDDED_VEGA_MARKERS)
     THEN <<"vega">> ELSE <<>>)

RECURSIVE BundleExpects_eligible_only(_)
\* faulty variant of BundleExpects: only the parts that are themselves
\* eligible add their tags; C34 does not hold of it
BundleExpects_eligible_only(parts) ==
    IF parts = <<>> THEN <<>>
    ELSE BundleExpects_eligible_only(SubSeq(parts, 1, Len(parts) - 1))
         \o (IF _should_rasterize_output(parts[Len(parts)].mime,
                                         parts[Len(parts)].val)
             THEN PartExpects(parts[Len(parts)].mime, parts[Len(parts)].val)
             ELSE <<>>)

RECURSIVE BundleExpects(_)
\* the expects list after the loop over mimebundle.items()
BundleExpects(parts) ==
    IF parts = <<>> THEN <<>>
    ELSE BundleExpects(SubSeq(parts, 1, Len(parts) - 1))
         \o PartExpects(parts[Len(parts)].mime, parts[Len(parts)].val)

RasterTarget(cell_id, expects) == [cell_id |-> cell_id, expects |-> expects]

\* [some, target]; ~some is the None result
_build_target_from_mimebundle(cell_id, mimebundle) ==
    LET should_capture ==
            \E i \in 1..Len(mimebundle) :
                _should_rasterize_output(mimebundle[i].mime, mimebundle[i].val)
    IN  [some |-> should_capture,
         target |-> RasterTarget(cell_id,
                                 _dedupe_strings(BundleExpects(mimebundle)))]

_build_target_from_output(cell_id, mimetype, data) ==
    [some |-> _should_rasterize_output(mimetype, data),
     target |-> RasterTarget(cell_id,
                             _dedupe_strings(PartExpects(mimetype, data)))]

(***************************************************************************)
(* Session view.  Output objects live in the heap (a sequence of           *)
(* [mimetype, data] objects); a cell notification holds the reference of   *)
(* its output, 0 for None.  cell_ids is [isnone, cell_ids].                *)
(***************************************************************************)
NoneRef == 0

\* the target one cell notification yields: [some, target]
CellTarget(h, note) ==
    IF note.output = NoneRef \/ h[note.output].data.k = "none"
    THEN [some |-> FALSE, target |-> RasterTarget(note.cell_id, <<>>)]
    ELSE IF h[note.output].mimetype = MIMEBUNDLE_TYPE
    THEN LET mimebundle == _load_mimebundle(h[note.output].data)
         IN  IF ~mimebundle.ok
             THEN [some |-> FALSE, target |-> RasterTarget(note.cell_id, <<>>)]
             ELSE _build_target_from_mimebundle(note.cell_id, mimebundle.parts)
    ELSE _build_target_from_output(note.cell_id, h[note.output].mimetype,
                                   h[note.output].data)

RECURSIVE CollectFrom(_, _)
CollectFrom(h, notes) ==
    IF notes = <<>> THEN <<>>
    ELSE LET t == CellTarget(h, notes[Len(notes)])
             front == CollectFrom(h, SubSeq(notes, 1, Len(notes) - 1))
         IN  IF t.some THEN Append(front, t.target) ELSE front

_collect_raster_targets(h, session_view) ==
    CollectFrom(h, session_view.cell_notifications)

\* the exception that leaves _collect_raster_targets, NoError when it returns:
\* that of _load_mimebundle on the first bundle payload on which it raises
CollectRaised(h, notes) ==
    LET Raised(i) ==
            IF notes[i].output = NoneRef \/ h[notes[i].output].data.k = "none"
               \/ h[notes[i].output].mimetype # MIMEBUNDLE_TYPE
            THEN NoError
            ELSE _load_mimebundle(h[notes[i].output].data).raised
    IN  IF \E i \in 1..Len(notes) : Raised(i) # NoError
        THEN Raised(CHOOSE i \in 1..Len(notes) :
                        /\ Raised(i) # NoError
                        /\ \A j \in 1..(i - 1) : Raised(j) = NoError)
        ELSE NoError

(***************************************************************************)
(* Target Orderer                                                          *)
(***************************************************************************)
\* faulty variant of OrderKey: order.get(cell_id, 0); C10 does not hold of it
OrderKey_fallback_zero(cell_ids, cell_id) ==
    IF \E i \in 1..Len(cell_ids) : cell_ids[i] = cell_id
    THEN (CHOOSE i \in 1..Len(cell_ids) :
            cell_ids[i] = cell_id
            /\ \A j \in (i + 1)..Len(cell_ids) : cell_ids[j] # cell_id) - 1
    ELSE 0

\* order.get(cell_id, fallback_index), positions counted from 0
OrderKey(cell_ids, cell_id) ==
    IF \E i \in 1..Len(cell_ids) : cell_ids[i] = cell_id
    THEN (CHOOSE i \in 1..Len(cell_ids) :
            cell_ids[i] = cell_id
            /\ \A j \in (i + 1)..Len(cell_ids) : cell_ids[j] # cell_id) - 1
    ELSE Cardinality({cell_ids[i] : i \in 1..Len(cell_ids)})

RECURSIVE InsertByKey(_, _, _)
\* x placed after every element whose key is <= its own
InsertByKey(sorted, x, cell_ids) ==
    IF sorted = <<>> THEN <<x>>
    ELSE IF OrderKey(cell_ids, sorted[Len(sorted)].cell_id)
            <= OrderKey(cell_ids, x.cell_id)
    THEN Append(sorted, x)
    ELSE Append(InsertByKey(SubSeq(sorted, 1, Len(sorted) - 1), x, cell_ids),
                sorted[Len(sorted)])

RECURSIVE StableSort(_, _)
\* sorted(targets, key=...): Python's sort is stable
StableSort(targets, cell_ids) ==
    IF targets = <<>> THEN <<>>
    ELSE InsertByKey(StableSort(SubSeq(targets, 1, Len(targets) - 1), cell_ids),
                     targets[Len(targets)], cell_ids)

_sort_targets_by_notebook_order(session_view, targets) ==
    IF session_view.cell_ids.isnone THEN targets
    ELSE StableSort(targets, session_view.cell_ids.cell_ids)

(***************************************************************************)
(* Markup Normalizer                                                       *)
(***************************************************************************)
\* html.unescape on one token
UnescapeToken(tok) ==
    IF tok = "&lt;" THEN "<" ELSE IF tok = "&gt;" THEN ">" ELSE tok

unescape(s) == [i \in 1..Len(s) |-> UnescapeToken(s[i])]

_unescape_component_markup(data) ==
    IF data.k = "str" THEN PyStr(unescape(data.items[1].s))
    ELSE IF data.k = "list"
    THEN PyList([i \in 1..Len(data.items) |->
                    IF data.items[i].isstr
                    THEN StrItem(unescape(data.items[i].s))
                    ELSE data.items[i]])
    ELSE data

\* faulty variant of _promote_text_output_for_capture: the payload is
\* unescaped and the declared mimetype stays; C31 does not hold of it
_promote_text_output_keeps_mimetype(output) ==
    IF ~_contains_marker(output.data, MARIMO_COMPONENT_MARKERS) THEN output
    ELSE [output EXCEPT !.data = _unescape_component_markup(output.data)]

\* the output object after the call
_promote_text_output_for_capture(output) ==
    IF ~_contains_marker(output.data, MARIMO_COMPONENT_MARKERS) THEN output
    ELSE [mimetype |-> TEXT_HTML,
          data |-> _unescape_component_markup(output.data)]

\* faulty variant of _promote_mimebundle_output_for_capture: only a text/html
\* part is promoted; C32 does not hold of it
_promote_mimebundle_output_html_only(output) ==
    LET mimebundle == _load_mimebundle(output.data)
        html_data == DictGet(mimebundle.parts, TEXT_HTML)
    IN  IF mimebundle.ok /\ html_data.found
           /\ _contains_marker(html_data.val, MARIMO_COMPONENT_MARKERS)
        THEN [output EXCEPT
                !.data = PyDict(DictSet(mimebundle.parts, TEXT_HTML,
                                        _unescape_component_markup(html_data.val)))]
        ELSE output

\* the output object after the call
_promote_mimebundle_output_for_capture(output) ==
    LET mimebundle == _load_mimebundle(output.data)
        html_data == DictGet(mimebundle.parts, TEXT_HTML)
        plain_data == DictGet(mimebundle.parts, TEXT_PLAIN)
        markdown_data == DictGet(mimebundle.parts, TEXT_MARKDOWN)
        IsNone(d) == ~d.found \/ d.val.k = "none"
        Promoted(d) ==
            [output EXCEPT
                !.data = PyDict(DictSet(mimebundle.parts, TEXT_HTML,
                                        _unescape_component_markup(d.val)))]
    IN  IF ~mimebundle.ok THEN output
        ELSE IF ~IsNone(html_data)
                /\ _contains_marker(html_data.val, MARIMO_COMPONENT_MARKERS)
        THEN Promoted(html_data)
        ELSE IF IsNone(plain_data)
                \/ ~_contains_marker(plain_data.val, MARIMO_COMPONENT_MARKERS)
        THEN IF IsNone(markdown_data)
                \/ ~_contains_marker(markdown_data.val, MARIMO_COMPONENT_MARKERS)
             THEN output
             ELSE Promoted(markdown_data)
        ELSE Promoted(plain_data)

\* shares every output object with the original
shallow_copy(h, view) == [heap |-> h, view |-> view]

\* copy.deepcopy(session_view): [heap, view], every output object of the view
\* allocated anew
deepcopy(h, view) ==
    LET notes == view.cell_notifications
        Live(i) == notes[i].output # NoneRef
        Rank(i) == Cardinality({j \in 1..i : Live(j)})
        fresh == Cardinality({j \in 1..Len(notes) : Live(j)})
        Source(r) == notes[CHOOSE i \in 1..Len(notes) :
                                Live(i) /\ Rank(i) = r].output
    IN  [heap |-> h \o [r \in 1..fresh |-> h[Source(r)]],
         view |-> [view EXCEPT !.cell_notifications =
                     [i \in 1..Len(notes) |->
                        [notes[i] EXCEPT !.output =
                            IF Live(i) THEN Len(h) + Rank(i) ELSE NoneRef]]]]

\* capture_view.cell_notifications.get(cell_id): the output reference, or NoneRef
\* when the cell has no notification or no output
OutputRef(view, cell_id) ==
    LET notes == view.cell_notifications
    IN  IF \E i \in 1..Len(notes) : notes[i].cell_id = cell_id
        THEN notes[CHOOSE i \in 1..Len(notes) : notes[i].cell_id = cell_id].output
        ELSE NoneRef

\* the heap after the body of the loop for one target
PromoteTarget(h, view, target) ==
    LET r == OutputRef(view, target.cell_id)
    IN  IF r = NoneRef THEN h
        ELSE IF h[r].mimetype \in {TEXT_HTML, TEXT_PLAIN, TEXT_MARKDOWN}
        THEN [h EXCEPT ![r] = _promote_text_output_for_capture(h[r])]
        ELSE IF h[r].mimetype # MIMEBUNDLE_TYPE THEN h
        ELSE [h EXCEPT ![r] = _promote_mimebundle_output_for_capture(h[r])]

RECURSIVE PromoteAll(_, _, _)
PromoteAll(h, view, targets) ==
    IF targets = <<>> THEN h
    ELSE PromoteTarget(PromoteAll(h, view, SubSeq(targets, 1, Len(targets) - 1)),
                       view, targets[Len(targets)])

\* [heap, view]: the heap after the call and the returned capture view
_promote_component_markup_for_capture(h, session_view, targets) ==
    LET copy == deepcopy(h, session_view)
    IN  [heap |-> PromoteAll(copy.heap, copy.view, targets), view |-> copy.view]

(***************************************************************************)
(* State of one call of collect_pdf_png_fallbacks                          *)
(***************************************************************************)
VARIABLES
    session_view,   \* the caller's view: [cell_notifications, cell_ids]
    heap,           \* the output objects, by reference
    view_before,    \* history: the caller's view, by value, at the call
    options,        \* PDFRasterizationOptions: [enabled, scale, server_mode]
    filepath,       \* [isnone, s]
    pc,             \* where the call stands
    targets,        \* the local variable targets of collect_pdf_png_fallbacks
    server_mode,    \* the normalized server mode, "" before it is computed
    phase,          \* the capture phase entered: "none" | "static" | "live"
    capture_view,   \* [made, view]: the normalized copy of the static phase
    html_server,    \* HtmlAssetServer and its serving thread
    live,           \* LiveNotebookServer and its subprocess
    drv,            \* the capture driver: browser, context, page, loop index
    html,           \* the local variable html of _collect_static_captures
    captures,       \* the driver's result mapping: cell id -> data URL
    hist,           \* history: what has been called, in order
    exc,            \* the exception in flight: [kind, at], kind "none" if none
    result,         \* the mapping returned by the call
    notebook,       \* the nbformat notebook node given to the injector
    injection       \* the injector's call: [png_fallbacks, before, done, injected_count]

vars == << session_view, heap, view_before, options, filepath, pc, targets,
           server_mode, phase, capture_view, html_server, live, drv, html,
           captures, hist, exc, result, notebook, injection >>

\* what collect_pdf_png_fallbacks only reads, and the injector's state, which
\* it never sees
inputs == << session_view, view_before, options, filepath, notebook, injection >>

EmptyMap == << >>
NoExc == [kind |-> "none", at |-> ""]
Exc(kind, at) == [kind |-> kind, at |-> at]
NoView == [cell_notifications |-> <<>>, cell_ids |-> [isnone |-> TRUE, cell_ids |-> <<>>]]

STATIC_BASE_URL == "http://127.0.0.1:0"
STATIC_PAGE_URL == "http://127.0.0.1:0/__marimo_pdf_raster__.html"
LIVE_PAGE_URL == "http://127.0.0.1:2719"

\* the HTML the exporter returns for asset_url
ExportedHtml(asset_url) == <<"<html", "asset_url=", asset_url, ">">>

HtmlServer0 ==
    [server |-> "none",         \* self._server: "none" | "set"
     thread |-> "none",         \* self._thread: "none" | "set"
     socket |-> "none",         \* the listening socket: "none" | "open" | "closed"
     serving |-> "none",        \* serve_forever: "none" | "running" | "stopped"
     shutdown |-> FALSE,        \* shutdown() was called
     joined |-> FALSE,          \* join() was called on the serving thread
     dynamic_html |-> <<>>,
     lock |-> "free",           \* dynamic_html_lock: "free" | "main" | a handler
     handlers |-> <<>>]         \* the request-handler threads: [pc, route, html]

Live0 ==
    [has_process |-> FALSE,     \* self._process is not None
     process |-> "none",        \* the subprocess: "none" | "running" | "exited"
     log_file |-> "none",       \* "none" | "open" | "deleted" | "kept"
     has_log_file |-> FALSE,    \* self._log_file is not None
     polls |-> 0,               \* completed iterations of the startup loop
     ready |-> FALSE,           \* __enter__ returned
     alive_seen |-> FALSE,      \* poll() was None in the last loop iteration
     health |-> "none",         \* what the last health probe gave
     signals |-> <<>>,          \* signals sent to the subprocess, in order
     reaped |-> "none"]         \* what saw the exit in _terminate_process:
                                \* "poll" | "wait" | "wait_after_kill" | "never"

Drv0 ==
    [browser |-> "none",        \* "none" | "open" | "closed"
     context |-> "none",
     page_url |-> "",
     targets |-> <<>>,          \* the targets argument
     index |-> 0,               \* targets whose loop body has ended
     page_ready |-> "unknown",  \* wait_for_function(WAIT_FOR_PAGE_READY):
                                \* "unknown" | "ready" | "timeout"
     trail |-> <<>>,            \* the waits the loop body in progress has
                                \* been through, in order
     settle_timeouts |-> {},    \* the load states of its settle wait that
                                \* timed out
     device_scale_factor |-> 0]

Hist0 ==
    [exporter_calls |-> 0,
     set_html_calls |-> 0,
     classified |-> <<>>,       \* the targets as classified, before ordering
     started |-> <<>>,          \* cell ids whose readiness wait has begun
     outcomes |-> <<>>,         \* per ended loop body: how it ended
     warnings |-> <<>>,         \* the server modes warned about as unknown
     closes |-> <<>>,           \* the close() calls of the driver, in order
     writes |-> <<>>,           \* the keys assigned in the result mapping of
                                \* the driver, one per assignment
     slides |-> <<>>,           \* cell ids for which GO_TO_NEXT_SLIDE was
                                \* evaluated, in order
     written |-> {},            \* the values passed to set_html
     served |-> {},             \* the bodies sent for the dynamic route
     accesses |-> {}]           \* reads and writes of dynamic_html: [who, kind, held]

Terminal == {"returned", "raised"}

\* the caller's view by value
DeepValue(h, view) ==
    [cells |-> [i \in 1..Len(view.cell_notifications) |->
                  LET note == view.cell_notifications[i]
                  IN  [cell_id |-> note.cell_id,
                       present |-> note.output # NoneRef,
                       output |-> IF note.output # NoneRef THEN h[note.output]
                                  ELSE [mimetype |-> "", data |-> PyNone]]],
     cell_ids |-> view.cell_ids]

(***************************************************************************)
(* Inputs                                                                  *)
(***************************************************************************)
Output(mimetype, data) == [present |-> TRUE, mimetype |-> mimetype, data |-> data]
NoOutput == [present |-> FALSE, mimetype |-> "", data |-> PyNone]

CellIdOf(i) == ToString(i)
CellIds == { CellIdOf(i) : i \in 1..MaxCells }

\* the view and heap holding the given outputs, cell i being CellIdOf(i)
MakeView(outs, cell_ids) ==
    LET Rank(i) == Cardinality({j \in 1..i : outs[j].present})
        n == Cardinality({j \in 1..Len(outs) : outs[j].present})
    IN  [heap |-> [r \in 1..n |->
                     LET o == outs[CHOOSE i \in 1..Len(outs) :
                                     outs[i].present /\ Rank(i) = r]
                     IN  [mimetype |-> o.mimetype, data |-> o.data]],
         view |-> [cell_notifications |->
                      [i \in 1..Len(outs) |->
                         [cell_id |-> CellIdOf(i),
                          output |-> IF outs[i].present THEN Rank(i) ELSE NoneRef]],
                   cell_ids |-> cell_ids]]

HtmlDiv == Output(TEXT_HTML, PyStr(<<"<", "div", ">">>))
HtmlSlider == Output(TEXT_HTML, PyStr(<<"<", "marimo-", "slider", ">">>))
PlainWidget ==
    Output(TEXT_PLAIN, PyStr(<<"&lt;", "marimo-", "anywidget", "&gt;">>))
ChartBundle ==
    Output(MIMEBUNDLE_TYPE,
           PyDict(<<Part(VEGALITE_V6, PyObj), Part(TEXT_PLAIN, PyStr(<<"vega">>))>>))
MarkdownBundle ==
    Output(MIMEBUNDLE_TYPE,
           PyDict(<<Part(TEXT_MARKDOWN, PyStr(<<"&lt;", "marimo-", "slider", "&gt;">>))>>))

\* the outputs a cell of the pipeline's session views may hold
PipelinePool == << HtmlDiv, HtmlSlider, PlainWidget, ChartBundle, MarkdownBundle >>

NoCellIds == [isnone |-> TRUE, cell_ids |-> <<>>]
SomeCellIds(ids) == [isnone |-> FALSE, cell_ids |-> ids]
Reversed(n) == [i \in 1..n |-> CellIdOf(n + 1 - i)]

\* views of 1..MaxCells cells, pool outputs in non-decreasing pool order, the
\* notebook order absent or the reverse of the notification order
PipelineViews ==
    { MakeView([i \in 1..n |-> PipelinePool[f[i]]], ids) :
        <<n, f, ids>> \in
            UNION { { <<m, g, c>> :
                        g \in { g \in [1..m -> 1..Len(PipelinePool)] :
                                  \A i \in 1..(m - 1) : g[i] <= g[i + 1] },
                        c \in { NoCellIds, SomeCellIds(Reversed(m)) } } :
                    m \in {MaxCells} } }

ServerModes == { "static", "Static", "live", "LIVE", "auto" }
FilePaths == { [isnone |-> TRUE, s |-> ""], [isnone |-> FALSE, s |-> ""],
               [isnone |-> FALSE, s |-> "demo.py"] }
\* scale factors, in tenths
Scales == { 40 }

InitPipeline(made) ==
    /\ session_view = made.view
    /\ heap = made.heap
    /\ view_before = DeepValue(made.heap, made.view)
    /\ pc = "start"
    /\ targets = <<>>
    /\ server_mode = ""
    /\ phase = "none"
    /\ capture_view = [made |-> FALSE, view |-> NoView]
    /\ html_server = HtmlServer0
    /\ live = Live0
    /\ drv = Drv0
    /\ html = <<>>
    /\ captures = EmptyMap
    /\ hist = Hist0
    /\ exc = NoExc
    /\ result = EmptyMap

\* no notebook node yet, no call of the injector
Notebook0 == [cells_islist |-> TRUE, cells |-> <<>>]
Injection0 ==
    [png_fallbacks |-> << >>, before |-> Notebook0, done |-> FALSE,
     injected_count |-> 0,
     images |-> << >>,     \* history: the screenshot bytes a fallback value
                           \* was made from, where the driver made it
     again |-> FALSE,      \* the injector was called a second time
     first |-> [notebook |-> Notebook0, injected_count |-> 0]]
                           \* history: the outcome of the first call

InitCall(made) ==
    /\ notebook = Notebook0
    /\ injection = Injection0
    /\ InitPipeline(made)

Init ==
    /\ \E made \in PipelineViews : InitCall(made)
    /\ options \in [enabled : BOOLEAN, scale : Scales, server_mode : ServerModes]
    /\ filepath \in FilePaths

(***************************************************************************)
(* Pipeline Coordinator: collect_pdf_png_fallbacks                         *)
(***************************************************************************)
\* str.lower() on the server modes of the model
lower(s) ==
    IF s = "LIVE" THEN "live" ELSE IF s = "Static" THEN "static" ELSE s

Return(value) ==
    /\ pc' = "returned"
    /\ result' = value

\* faulty variant of CollectEntry: an empty target list is not returned on;
\* C14 does not hold of it
CollectEntry_plans_without_targets ==
    /\ pc = "start"
    /\ IF ~options.enabled
       THEN Return(EmptyMap) /\ UNCHANGED << targets, exc >>
       ELSE LET raised == CollectRaised(heap, session_view.cell_notifications)
            IN  IF raised # NoError
                THEN /\ exc' = Exc(raised, "classify")
                     /\ pc' = "raised"
                     /\ UNCHANGED << targets, result >>
                ELSE /\ targets' = _collect_raster_targets(heap, session_view)
                     /\ pc' = "sort"
                     /\ UNCHANGED << result, exc >>
    /\ UNCHANGED << inputs, heap, server_mode, phase, capture_view, html_server,
                    live, drv, html, captures, hist >>

\* lines 432-439: disabled, or no target: return {}
CollectEntry ==
    /\ pc = "start"
    /\ IF ~options.enabled
       THEN Return(EmptyMap) /\ UNCHANGED << targets, exc >>
       ELSE LET raised == CollectRaised(heap, session_view.cell_notifications)
                found == _collect_raster_targets(heap, session_view)
            IN  IF raised # NoError
                THEN /\ exc' = Exc(raised, "classify")
                     /\ pc' = "raised"
                     /\ UNCHANGED << targets, result >>
                ELSE IF found = <<>>
                THEN Return(EmptyMap) /\ UNCHANGED << targets, exc >>
                ELSE /\ targets' = found
                     /\ pc' = "sort"
                     /\ UNCHANGED << result, exc >>
    /\ UNCHANGED << inputs, heap, server_mode, phase, capture_view, html_server,
                    live, drv, html, captures, hist >>

\* faulty variant of SortAndPlan: an unknown server mode falls back to live;
\* C12 does not hold of it
SortAndPlan_defaults_to_live ==
    /\ pc = "sort"
    /\ targets' = _sort_targets_by_notebook_order(session_view, targets)
    /\ server_mode' = IF lower(options.server_mode) \notin {"static", "live"}
                      THEN "live" ELSE lower(options.server_mode)
    /\ hist' = [hist EXCEPT
                  !.classified = targets,
                  !.warnings = IF lower(options.server_mode) \notin {"static", "live"}
                               THEN Append(@, options.server_mode) ELSE @]
    /\ pc' = "dispatch"
    /\ UNCHANGED << inputs, heap, phase, capture_view, html_server, live, drv,
                    html, captures, exc, result >>

\* lines 441-448: order the targets, normalize the server mode
SortAndPlan ==
    /\ pc = "sort"
    /\ targets' = _sort_targets_by_notebook_order(session_view, targets)
    /\ server_mode' = IF lower(options.server_mode) \notin {"static", "live"}
                      THEN "static" ELSE lower(options.server_mode)
    /\ hist' = [hist EXCEPT
                  !.classified = targets,
                  !.warnings = IF lower(options.server_mode) \notin {"static", "live"}
                               THEN Append(@, options.server_mode) ELSE @]
    /\ pc' = "dispatch"
    /\ UNCHANGED << inputs, heap, phase, capture_view, html_server, live, drv,
                    html, captures, exc, result >>

\* faulty variant of Truthy: filepath is not None; C13 does not hold of it
Truthy_not_none(path) == ~path.isnone

\* bool(filepath)
Truthy(path) == ~path.isnone /\ path.s # ""

\* faulty variant of Dispatch: the live phase is chosen whenever a target
\* expects a widget; C6 does not hold of it
Dispatch_live_for_widgets ==
    /\ pc = "dispatch"
    /\ IF \/ server_mode = "live"
          \/ \E k \in 1..Len(targets) : \E e \in 1..Len(targets[k].expects) :
                targets[k].expects[e] = "anywidget"
       THEN /\ phase' = "live"
            /\ IF ~Truthy(filepath)
               THEN Return(EmptyMap)
               ELSE pc' = "live_enter" /\ UNCHANGED result
       ELSE /\ phase' = "static"
            /\ pc' = "static_enter"
            /\ UNCHANGED result
    /\ UNCHANGED << inputs, heap, targets, server_mode, capture_view, html_server,
                    live, drv, html, captures, hist, exc >>

\* lines 462-479 and the entry of the phase chosen (lines 396-400 for live)
Dispatch ==
    /\ pc = "dispatch"
    /\ IF server_mode = "live"
       THEN /\ phase' = "live"
            /\ IF ~Truthy(filepath)
               THEN Return(EmptyMap)
               ELSE pc' = "live_enter" /\ UNCHANGED result
       ELSE /\ phase' = "static"
            /\ pc' = "static_enter"
            /\ UNCHANGED result
    /\ UNCHANGED << inputs, heap, targets, server_mode, capture_view, html_server,
                    live, drv, html, captures, hist, exc >>

\* where control goes when the body of the phase's with-block ends
PhaseExit == IF phase = "static" THEN "static_exit" ELSE "live_exit"

\* the with-block ends: the value returned, or the exception raised
Leave(value) ==
    IF exc.kind = "none"
    THEN pc' = "returned" /\ result' = value
    ELSE pc' = "raised" /\ UNCHANGED result

(***************************************************************************)
(* Static phase: _collect_static_captures and HtmlAssetServer              *)
(***************************************************************************)
\* HtmlAssetServer.__enter__; when it raises, the with statement does not
\* call __exit__
StaticEnter ==
    /\ pc = "static_enter"
    /\ \E found \in BOOLEAN :
        IF found
        THEN /\ html_server' = [html_server EXCEPT
                    !.server = "set", !.thread = "set", !.socket = "open",
                    !.serving = "running", !.dynamic_html = <<>>]
             /\ pc' = "static_promote"
             /\ UNCHANGED exc
        ELSE /\ exc' = Exc("RuntimeError", "static_enter")
             /\ pc' = "raised"
             /\ UNCHANGED html_server
    /\ UNCHANGED << inputs, heap, targets, server_mode, phase, capture_view, live,
                    drv, html, captures, hist, result >>

\* lines 357-360
StaticPromote ==
    /\ pc = "static_promote"
    /\ LET r == _promote_component_markup_for_capture(heap, session_view, targets)
       IN  /\ heap' = r.heap
           /\ capture_view' = [made |-> TRUE, view |-> r.view]
    /\ pc' = "static_export"
    /\ UNCHANGED << inputs, targets, server_mode, phase, html_server, live, drv,
                    html, captures, hist, exc, result >>

\* lines 361-372: Exporter().export_as_html returns the document, or raises
StaticExport ==
    /\ pc = "static_export"
    /\ hist' = [hist EXCEPT !.exporter_calls = @ + 1]
    /\ \E ok \in BOOLEAN :
        IF ok
        THEN /\ html' = ExportedHtml(STATIC_BASE_URL)
             /\ pc' = "static_publish"
             /\ UNCHANGED exc
        ELSE /\ exc' = Exc("ExportError", "export")
             /\ pc' = "static_exit"
             /\ UNCHANGED html
    /\ UNCHANGED << inputs, heap, targets, server_mode, phase, capture_view,
                    html_server, live, drv, captures, result >>

\* faulty variant of StaticSetHtml: the driver gets only the targets that
\* expect nothing; C7 does not hold of it
StaticSetHtml_generic_targets_only ==
    /\ pc = "static_publish"
    /\ html_server.server = "set"
    /\ html_server' = [html_server EXCEPT !.dynamic_html = html]
    /\ hist' = [hist EXCEPT !.set_html_calls = @ + 1]
    /\ drv' = [Drv0 EXCEPT !.page_url = STATIC_PAGE_URL,
                           !.targets = SelectSeq(targets,
                                                 LAMBDA t : t.expects = <<>>)]
    /\ pc' = "drv_launch"
    /\ UNCHANGED << inputs, heap, targets, server_mode, phase, capture_view, live,
                    html, captures, exc, result >>

\* faulty variant of StaticSetHtml: the driver is called without the
\* document having been published; C24 does not hold of it
StaticSetHtml_publishes_nothing ==
    /\ pc = "static_publish"
    /\ html_server.server = "set"
    /\ drv' = [Drv0 EXCEPT !.page_url = STATIC_PAGE_URL, !.targets = targets]
    /\ pc' = "drv_launch"
    /\ UNCHANGED << inputs, heap, targets, server_mode, phase, capture_view, live,
                    html, captures, exc, result, html_server, hist >>

\* line 373: server.set_html(html), then the call of the driver (374-378)
StaticSetHtml ==
    /\ pc = "static_publish"
    /\ html_server.server = "set"
    /\ html_server' = [html_server EXCEPT !.dynamic_html = html]
    /\ hist' = [hist EXCEPT !.set_html_calls = @ + 1]
    /\ drv' = [Drv0 EXCEPT !.page_url = STATIC_PAGE_URL, !.targets = targets]
    /\ pc' = "drv_launch"
    /\ UNCHANGED << inputs, heap, targets, server_mode, phase, capture_view, live,
                    html, captures, exc, result >>

\* faulty variant of StaticExit: the server is released only when the body
\* ended without an exception; C3 does not hold of it
StaticExit_keeps_server_on_error ==
    /\ pc = "static_exit"
    /\ html_server' =
         IF exc.kind = "none"
         THEN [html_server EXCEPT
                 !.shutdown = TRUE, !.serving = "stopped", !.socket = "closed",
                 !.server = "none", !.joined = TRUE, !.thread = "none"]
         ELSE html_server
    /\ Leave(captures)
    /\ UNCHANGED << inputs, heap, targets, server_mode, phase, capture_view, live,
                    drv, html, captures, hist, exc >>

\* HtmlAssetServer.__exit__: shutdown(), server_close(), join(timeout=1); the
\* exception of the body is not suppressed
StaticExit ==
    /\ pc = "static_exit"
    /\ html_server' =
         LET closed == IF html_server.server # "none"
                       THEN [html_server EXCEPT
                               !.shutdown = TRUE, !.serving = "stopped",
                               !.socket = "closed", !.server = "none"]
                       ELSE html_server
         IN  IF closed.thread # "none"
             THEN [closed EXCEPT !.joined = TRUE, !.thread = "none"]
             ELSE closed
    /\ Leave(captures)
    /\ UNCHANGED << inputs, heap, targets, server_mode, phase, capture_view, live,
                    drv, html, captures, hist, exc >>

(***************************************************************************)
(* Capture Driver: _capture_pngs_from_page                                 *)
(***************************************************************************)
B64Chars ==
    << "A", "B", "C", "D", "E", "F", "G", "H", "I", "J", "K", "L", "M",
       "N", "O", "P", "Q", "R", "S", "T", "U", "V", "W", "X", "Y", "Z",
       "a", "b", "c", "d", "e", "f", "g", "h", "i", "j", "k", "l", "m",
       "n", "o", "p", "q", "r", "s", "t", "u", "v", "w", "x", "y", "z",
       "0", "1", "2", "3", "4", "5", "6", "7", "8", "9", "+", "/" >>

RECURSIVE b64encode(_)
\* base64.b64encode(image).decode("ascii"), one character per element
b64encode(bytes) ==
    LET c(v) == B64Chars[v + 1]
    IN  IF bytes = <<>> THEN <<>>
        ELSE IF Len(bytes) = 1
        THEN << c(bytes[1] \div 4), c((bytes[1] % 4) * 16), "=", "=" >>
        ELSE IF Len(bytes) = 2
        THEN << c(bytes[1] \div 4),
                c((bytes[1] % 4) * 16 + bytes[2] \div 16),
                c((bytes[2] % 16) * 4), "=" >>
        ELSE << c(bytes[1] \div 4),
                c((bytes[1] % 4) * 16 + bytes[2] \div 16),
                c((bytes[2] % 16) * 4 + bytes[3] \div 64),
                c(bytes[3] % 64) >>
             \o b64encode(SubSeq(bytes, 4, Len(bytes)))

\* "data:image/png;base64," in three tokens
PNG_DATA_URL_PREFIX == << "data:", "image/png", ";base64," >>

\* faulty variant of _to_data_url: the data URL of another image type; C35
\* does not hold of it
_to_data_url_jpeg(image) ==
    << "data:", "image/jpeg", ";base64," >> \o b64encode(image)

\* faulty variant of _to_data_url: the encoded bytes without the prefix; C30
\* does not hold of it
_to_data_url_bare(image) == b64encode(image)

\* lines 328-330
_to_data_url(image) == PNG_DATA_URL_PREFIX \o b64encode(image)

\* the bytes a screenshot may return
Images == { << 137, 80, 78, 71 >> }

\* faulty variant of Max: the second argument, unclamped; C15 does not hold
\* of it
Max_second(a, b) == b

\* max(a, b): the first argument unless the second is greater
Max(a, b) == IF a >= b THEN a ELSE b

\* an exception leaves the async-with block: playwright shuts the browser down
DrvRaise(kind, at) ==
    /\ exc' = Exc(kind, at)
    /\ drv' = [drv EXCEPT
                 !.browser = IF @ = "open" THEN "closed" ELSE @,
                 !.context = IF @ = "open" THEN "closed" ELSE @]
    /\ pc' = PhaseExit

\* one step of the driver that either succeeds or raises
DrvStep(at, next, failures) ==
    /\ pc = at
    /\ \E outcome \in {"ok"} \cup failures :
        IF outcome = "ok"
        THEN pc' = next /\ UNCHANGED << drv, exc >>
        ELSE DrvRaise(outcome, at)
    /\ UNCHANGED << inputs, heap, targets, server_mode, phase, capture_view,
                    html_server, live, html, captures, hist, result >>

\* a wait whose timeout is swallowed
BestEffort(at, next) ==
    /\ pc = at
    /\ \E outcome \in {"ok", "TimeoutError"} : pc' = next
    /\ UNCHANGED << inputs, heap, targets, server_mode, phase, capture_view,
                    html_server, live, drv, html, captures, hist, exc, result >>

\* lines 589-598: launch the browser, open the context and the page
DrvLaunch ==
    /\ pc = "drv_launch"
    /\ \E ok \in BOOLEAN :
        IF ok
        THEN /\ drv' = [drv EXCEPT
                          !.browser = "open", !.context = "open",
                          !.device_scale_factor = Max(10, options.scale)]
             /\ pc' = "drv_goto"
             /\ UNCHANGED exc
        ELSE DrvRaise("Error", "drv_launch")
    /\ UNCHANGED << inputs, heap, targets, server_mode, phase, capture_view,
                    html_server, live, html, captures, hist, result >>

\* lines 599-603: page.goto
DrvGoto == DrvStep("drv_goto", "drv_idle1", {"TimeoutError", "Error"})

\* lines 606-610
DrvIdle1 == BestEffort("drv_idle1", "drv_ready")

\* faulty variant of DrvPageReady: the timeout of the readiness wait is
\* swallowed as that of a best-effort wait; C27 does not hold of it
DrvPageReady_best_effort ==
    /\ pc = "drv_ready"
    /\ \E ready \in BOOLEAN :
         drv' = [drv EXCEPT !.page_ready = IF ready THEN "ready" ELSE "timeout"]
    /\ pc' = "drv_idle2"
    /\ UNCHANGED << inputs, heap, targets, server_mode, phase, capture_view,
                    html_server, live, html, captures, hist, exc, result >>

\* lines 615-618: page.wait_for_function(WAIT_FOR_PAGE_READY); its timeout
\* is not caught
DrvPageReady ==
    /\ pc = "drv_ready"
    /\ \E ready \in BOOLEAN :
        IF ready
        THEN /\ drv' = [drv EXCEPT !.page_ready = "ready"]
             /\ pc' = "drv_idle2"
             /\ UNCHANGED exc
        ELSE /\ exc' = Exc("TimeoutError", "drv_ready")
             /\ drv' = [drv EXCEPT !.page_ready = "timeout",
                                   !.browser = "closed", !.context = "closed"]
             /\ pc' = PhaseExit
    /\ UNCHANGED << inputs, heap, targets, server_mode, phase, capture_view,
                    html_server, live, html, captures, hist, result >>

\* lines 621-625
DrvIdle2 == BestEffort("drv_idle2", "loop")

\* faulty variant of Target: the list is walked from its end; C5 does not
\* hold of it
Target_from_the_end == drv.targets[Len(drv.targets) - drv.index]

\* the target of the loop body in progress
Target == drv.targets[drv.index + 1]

\* faulty variant of Skip: break in place of continue; C4 does not hold of it
Skip_breaks(how) ==
    /\ drv' = [drv EXCEPT !.index = Len(drv.targets),
                          !.trail = <<>>, !.settle_timeouts = {}]
    /\ hist' = [hist EXCEPT !.outcomes = Append(@, how)]
    /\ pc' = "loop"
    /\ UNCHANGED << captures, exc >>

\* the loop body ends without a capture: continue
Skip(how) ==
    /\ drv' = [drv EXCEPT !.index = @ + 1,
                          !.trail = <<>>, !.settle_timeouts = {}]
    /\ hist' = [hist EXCEPT !.outcomes = Append(@, how)]
    /\ pc' = "loop"
    /\ UNCHANGED << captures, exc >>

\* a step of _wait_for_target_ready inside its try: a timeout returns False
ReadyStep(at, next) ==
    /\ pc = at
    /\ \E outcome \in {"ok", "TimeoutError"} :
        IF outcome = "ok"
        THEN /\ pc' = next
             /\ drv' = [drv EXCEPT !.trail = Append(@, at)]
             /\ UNCHANGED << hist, captures, exc >>
        ELSE Skip("ready_timeout")
    /\ UNCHANGED << inputs, heap, targets, server_mode, phase, capture_view,
                    html_server, live, html, result >>

\* a step of the loop body that takes no timeout and returns by itself: a
\* script that runs to its end at once, a fixed sleep
Evaluate(at, next) ==
    /\ pc = at
    /\ pc' = next
    /\ drv' = [drv EXCEPT !.trail = Append(@, at)]
    /\ UNCHANGED << inputs, heap, targets, server_mode, phase, capture_view,
                    html_server, live, html, captures, hist, exc, result >>

\* a wait of the loop body whose timeout is swallowed
TargetBestEffort(at, next) ==
    /\ pc = at
    /\ \E outcome \in {"ok", "TimeoutError"} : pc' = next
    /\ drv' = [drv EXCEPT !.trail = Append(@, at)]
    /\ UNCHANGED << inputs, heap, targets, server_mode, phase, capture_view,
                    html_server, live, html, captures, hist, exc, result >>

\* faulty variant of SettleState: a load state that times out ends the loop
\* over the load states; C28 does not hold of it
SettleState_breaks(at, next) ==
    /\ pc = at
    /\ \E outcome \in {"ok", "TimeoutError"} :
        IF outcome = "ok"
        THEN pc' = next /\ drv' = [drv EXCEPT !.trail = Append(@, at)]
        ELSE /\ pc' = "t_settle_quiet"
             /\ drv' = [drv EXCEPT !.trail = Append(@, at),
                                   !.settle_timeouts = @ \cup {at}]
    /\ UNCHANGED << inputs, heap, targets, server_mode, phase, capture_view,
                    html_server, live, html, captures, hist, exc, result >>

\* lines 510-517, one load state of _wait_for_navigation_settled: its
\* timeout is caught and the loop continues with the next state
SettleState(at, next) ==
    /\ pc = at
    /\ \E outcome \in {"ok", "TimeoutError"} :
        /\ pc' = next
        /\ drv' = [drv EXCEPT
                     !.trail = Append(@, at),
                     !.settle_timeouts = IF outcome = "ok" THEN @
                                         ELSE @ \cup {at}]
    /\ UNCHANGED << inputs, heap, targets, server_mode, phase, capture_view,
                    html_server, live, html, captures, hist, exc, result >>

\* page.evaluate(WAIT_FOR_NEXT_PAINT): the call takes no timeout.  It returns
\* when the page has painted two frames; on a page whose frames never paint
\* the promise never resolves and control stays in the call ("awaiting").
PaintWait(at, next) ==
    /\ pc = at
    /\ \E painted \in BOOLEAN :
        IF painted
        THEN pc' = next /\ drv' = [drv EXCEPT !.trail = Append(@, at)]
        ELSE pc' = "awaiting" /\ UNCHANGED drv
    /\ UNCHANGED << inputs, heap, targets, server_mode, phase, capture_view,
                    html_server, live, html, captures, hist, exc, result >>

\* lines 628-650, 531-534: the next target's locator.wait_for(state="visible")
TargetWaitVisible ==
    /\ pc = "loop"
    /\ drv.index < Len(drv.targets)
    /\ \E outcome \in {"ok", "TimeoutError", "Error"} :
        IF outcome = "ok"
        THEN /\ hist' = [hist EXCEPT !.started = Append(@, Target.cell_id)]
             /\ drv' = [drv EXCEPT !.trail = <<"t_visible">>]
             /\ pc' = "t_scroll"
             /\ UNCHANGED << captures, exc >>
        ELSE IF outcome = "TimeoutError"
        THEN /\ drv' = [drv EXCEPT !.index = @ + 1]
             /\ hist' = [hist EXCEPT !.started = Append(@, Target.cell_id),
                                     !.outcomes = Append(@, "ready_timeout")]
             /\ pc' = "loop"
             /\ UNCHANGED << captures, exc >>
        ELSE /\ hist' = [hist EXCEPT !.started = Append(@, Target.cell_id)]
             /\ DrvRaise("Error", "t_visible")
             /\ UNCHANGED captures
    /\ UNCHANGED << inputs, heap, targets, server_mode, phase, capture_view,
                    html_server, live, html, result >>

\* lines 535-537: locator.scroll_into_view_if_needed
TargetScroll == ReadyStep("t_scroll", "t_paint1")

\* line 538: page.evaluate(WAIT_FOR_NEXT_PAINT)
TargetPaint1 == PaintWait("t_paint1", "t_idle1")

\* lines 539-549: _wait_for_network_idle, then the settle wait if expected
TargetIdle1 ==
    /\ pc = "t_idle1"
    /\ \E outcome \in {"ok", "TimeoutError"} :
        pc' = IF Target.expects # <<>> THEN "t_settle_dcl" ELSE "t_idle2"
    /\ drv' = [drv EXCEPT !.trail = Append(@, "t_idle1")]
    /\ UNCHANGED << inputs, heap, targets, server_mode, phase, capture_view,
                    html_server, live, html, captures, hist, exc, result >>

\* lines 510-518: _wait_for_navigation_settled
SettleDomContentLoaded == SettleState("t_settle_dcl", "t_settle_load")
SettleLoad == SettleState("t_settle_load", "t_settle_idle")
SettleNetworkIdle == SettleState("t_settle_idle", "t_settle_quiet")
SettleQuiet == Evaluate("t_settle_quiet", "t_idle2")

\* lines 550-555
TargetIdle2 == TargetBestEffort("t_idle2", "t_paint2")
TargetPaint2 == PaintWait("t_paint2", "t_slide")

\* lines 658-659: GO_TO_NEXT_SLIDE, WAIT_FOR_NEXT_PAINT.  The script advances
\* the slide deck of the page when the page has one; what is recorded is that
\* the script was evaluated for the target.
\* faulty variant of TargetSlide: only the first target of the run advances
\* the deck; C29 does not hold of it
TargetSlide_first_target_only ==
    /\ pc = "t_slide"
    /\ pc' = "t_paint3"
    /\ drv' = [drv EXCEPT !.trail = Append(@, "t_slide")]
    /\ hist' = IF drv.index = 0
               THEN [hist EXCEPT !.slides = Append(@, Target.cell_id)]
               ELSE hist
    /\ UNCHANGED << inputs, heap, targets, server_mode, phase, capture_view,
                    html_server, live, html, captures, exc, result >>

TargetSlide ==
    /\ pc = "t_slide"
    /\ pc' = "t_paint3"
    /\ drv' = [drv EXCEPT !.trail = Append(@, "t_slide")]
    /\ hist' = [hist EXCEPT !.slides = Append(@, Target.cell_id)]
    /\ UNCHANGED << inputs, heap, targets, server_mode, phase, capture_view,
                    html_server, live, html, captures, exc, result >>

TargetPaint3 == PaintWait("t_paint3", "t_shot")

\* lines 660-676: locator.screenshot, captures[target.cell_id] = _to_data_url(image)
TargetShot ==
    /\ pc = "t_shot"
    /\ \E outcome \in {"ok", "TimeoutError", "Error"} :
        IF outcome = "ok"
        THEN \E image \in Images :
                /\ captures' =
                     [c \in DOMAIN captures \cup {Target.cell_id} |->
                        IF c = Target.cell_id THEN _to_data_url(image)
                        ELSE captures[c]]
                /\ drv' = [drv EXCEPT !.index = @ + 1,
                                      !.trail = <<>>, !.settle_timeouts = {}]
                /\ hist' = [hist EXCEPT
                              !.outcomes = Append(@, "captured"),
                              !.writes = Append(@, Target.cell_id)]
                /\ pc' = "loop"
                /\ UNCHANGED exc
        ELSE IF outcome = "TimeoutError"
        THEN Skip("shot_timeout")
        ELSE DrvRaise("Error", "t_shot") /\ UNCHANGED << captures, hist >>
    /\ UNCHANGED << inputs, heap, targets, server_mode, phase, capture_view,
                    html_server, live, html, result >>

\* faulty variant of DrvClose: a run that captured nothing returns without
\* closing; C26 does not hold of it
DrvClose_only_with_captures ==
    /\ pc = "loop"
    /\ drv.index = Len(drv.targets)
    /\ IF captures = EmptyMap
       THEN UNCHANGED << drv, hist >>
       ELSE /\ drv' = [drv EXCEPT !.context = "closed", !.browser = "closed"]
            /\ hist' = [hist EXCEPT !.closes = @ \o <<"context", "browser">>]
    /\ pc' = PhaseExit
    /\ UNCHANGED << inputs, heap, targets, server_mode, phase, capture_view,
                    html_server, live, html, captures, exc, result >>

\* lines 678-691: context.close(), browser.close(), return captures
DrvClose ==
    /\ pc = "loop"
    /\ drv.index = Len(drv.targets)
    /\ drv' = [drv EXCEPT !.context = "closed", !.browser = "closed"]
    /\ hist' = [hist EXCEPT !.closes = @ \o <<"context", "browser">>]
    /\ pc' = PhaseExit
    /\ UNCHANGED << inputs, heap, targets, server_mode, phase, capture_view,
                    html_server, live, html, captures, exc, result >>

(***************************************************************************)
(* Live phase: _capture_pngs_from_live_page and LiveNotebookServer.        *)
(* live.process = "running" says the subprocess has not been seen to exit: *)
(* it may exit by itself at any time, which the program learns at its next *)
(* poll() or wait().                                                       *)
(***************************************************************************)
\* __enter__, lines 48-58: the log file and the subprocess
LiveSpawn ==
    /\ pc = "live_enter"
    /\ live' = [live EXCEPT
                  !.has_log_file = TRUE, !.log_file = "open",
                  !.has_process = TRUE, !.process = "running"]
    /\ pc' = "live_poll"
    /\ UNCHANGED << inputs, heap, targets, server_mode, phase, capture_view,
                    html_server, drv, html, captures, hist, exc, result >>

\* __enter__ raises: the with statement does not call __exit__
EnterRaises(kind, at) ==
    /\ exc' = Exc(kind, at)
    /\ pc' = "raised"

\* faulty variant of HealthOk: any response of the health endpoint counts;
\* C20 does not hold of it
HealthOk_any_response(seen) == seen \in {"200", "204"}

\* line 127: response.status == 200
HealthOk(seen) == seen = "200"

\* _wait_until_ready, one evaluation of the loop condition and, when the
\* deadline has not passed, one iteration.  The deadline cannot have passed
\* before the first iteration and has passed after MaxPolls iterations.
LivePoll ==
    /\ pc = "live_poll"
    /\ \E seen \in {"deadline", "exited", "200", "204", "URLError", "TimeoutError"} :
        IF seen = "deadline"
        THEN /\ live.polls >= 1
             /\ EnterRaises("RuntimeError", "startup_timeout")
             /\ UNCHANGED << live, drv >>
        ELSE /\ live.polls < MaxPolls
             /\ IF seen = "exited"
                THEN \* process.poll() is not None
                     /\ live' = [live EXCEPT !.process = "exited",
                                             !.alive_seen = FALSE]
                     /\ EnterRaises("RuntimeError", "startup_exit")
                     /\ UNCHANGED drv
                ELSE IF HealthOk(seen)
                THEN \* the health probe succeeded: __enter__ returns and the
                     \* driver is called (lines 703-708)
                     /\ live' = [live EXCEPT !.ready = TRUE,
                                             !.alive_seen = TRUE,
                                             !.health = seen]
                     /\ drv' = [Drv0 EXCEPT !.page_url = LIVE_PAGE_URL,
                                            !.targets = targets]
                     /\ pc' = "drv_launch"
                     /\ UNCHANGED exc
                ELSE IF seen \in {"204", "URLError"}
                THEN \* another status, or URLError (refused, HTTPError): sleep
                     /\ live' = [live EXCEPT !.polls = @ + 1,
                                             !.alive_seen = TRUE,
                                             !.health = seen]
                     /\ UNCHANGED << pc, drv, exc >>
                ELSE \* urlopen raises an exception that is no URLError (the
                     \* response timed out or the connection was reset)
                     /\ live' = [live EXCEPT !.alive_seen = TRUE,
                                             !.health = seen]
                     /\ EnterRaises("TimeoutError", "health_probe")
                     /\ UNCHANGED drv
    /\ UNCHANGED << inputs, heap, targets, server_mode, phase, capture_view,
                    html_server, html, captures, hist, result >>

\* faulty variant of LiveTerminate: the poll() of line 156 is not made, so
\* a process that has exited is signalled too; C22 does not hold of it
LiveTerminate_signals_exited ==
    /\ pc = "live_exit"
    /\ IF ~live.has_process
       THEN pc' = "live_cleanup" /\ UNCHANGED live
       ELSE \E seen \in {"exited", "exits", "TimeoutExpired"} :
              IF seen = "exited"
              THEN /\ live' = [live EXCEPT !.signals = Append(@, "terminate"),
                                           !.process = "exited",
                                           !.has_process = FALSE,
                                           !.reaped = "poll"]
                   /\ pc' = "live_cleanup"
              ELSE IF seen = "exits"
              THEN /\ live.process = "running"
                   /\ live' = [live EXCEPT !.signals = Append(@, "terminate"),
                                           !.process = "exited",
                                           !.has_process = FALSE,
                                           !.reaped = "wait"]
                   /\ pc' = "live_cleanup"
              ELSE /\ live.process = "running"
                   /\ live' = [live EXCEPT !.signals = Append(@, "terminate")]
                   /\ pc' = "live_kill"
    /\ UNCHANGED << inputs, heap, targets, server_mode, phase, capture_view,
                    html_server, drv, html, captures, hist, exc, result >>

\* __exit__, lines 72-74 and _terminate_process up to the first wait
LiveTerminate ==
    /\ pc = "live_exit"
    /\ IF ~live.has_process
       THEN pc' = "live_cleanup" /\ UNCHANGED live
       ELSE \E seen \in {"exited", "exits", "TimeoutExpired"} :
              IF seen = "exited"
              THEN \* process.poll() is not None: no signal
                   /\ live' = [live EXCEPT !.process = "exited",
                                           !.has_process = FALSE,
                                           !.reaped = "poll"]
                   /\ pc' = "live_cleanup"
              ELSE IF seen = "exits"
              THEN \* terminate(), and wait() returns
                   /\ live.process = "running"
                   /\ live' = [live EXCEPT !.signals = Append(@, "terminate"),
                                           !.process = "exited",
                                           !.has_process = FALSE,
                                           !.reaped = "wait"]
                   /\ pc' = "live_cleanup"
              ELSE \* terminate(), and wait() raises TimeoutExpired
                   /\ live.process = "running"
                   /\ live' = [live EXCEPT !.signals = Append(@, "terminate")]
                   /\ pc' = "live_kill"
    /\ UNCHANGED << inputs, heap, targets, server_mode, phase, capture_view,
                    html_server, drv, html, captures, hist, exc, result >>

\* _terminate_process, lines 161-163: kill() and the second wait, whose
\* TimeoutExpired leaves __exit__
LiveKill ==
    /\ pc = "live_kill"
    /\ \E exits \in BOOLEAN :
        IF exits
        THEN /\ live' = [live EXCEPT !.signals = Append(@, "kill"),
                                     !.process = "exited",
                                     !.has_process = FALSE,
                                     !.reaped = "wait_after_kill"]
             /\ pc' = "live_cleanup"
             /\ UNCHANGED exc
        ELSE /\ live' = [live EXCEPT !.signals = Append(@, "kill"),
                                     !.reaped = "never"]
             /\ exc' = Exc("TimeoutExpired", "live_kill")
             /\ pc' = "raised"
    /\ UNCHANGED << inputs, heap, targets, server_mode, phase, capture_view,
                    html_server, drv, html, captures, hist, result >>

\* __exit__, lines 76-86: close and unlink the log file; OSError is logged
LiveCleanup ==
    /\ pc = "live_cleanup"
    /\ IF live.has_log_file
       THEN \E unlinked \in BOOLEAN :
              live' = [live EXCEPT
                         !.log_file = IF unlinked THEN "deleted" ELSE "kept",
                         !.has_log_file = FALSE]
       ELSE UNCHANGED live
    /\ Leave(captures)
    /\ UNCHANGED << inputs, heap, targets, server_mode, phase, capture_view,
                    html_server, drv, html, captures, hist, exc >>

(***************************************************************************)
(* The call                                                                *)
(***************************************************************************)
Next ==
    \/ CollectEntry
    \/ SortAndPlan
    \/ Dispatch
    \/ StaticEnter
    \/ StaticPromote
    \/ StaticExport
    \/ StaticSetHtml
    \/ StaticExit
    \/ LiveSpawn
    \/ LivePoll
    \/ LiveTerminate
    \/ LiveKill
    \/ LiveCleanup
    \/ DrvLaunch
    \/ DrvGoto
    \/ DrvIdle1
    \/ DrvPageReady
    \/ DrvIdle2
    \/ TargetWaitVisible
    \/ TargetScroll
    \/ TargetPaint1
    \/ TargetIdle1
    \/ SettleDomContentLoaded
    \/ SettleLoad
    \/ SettleNetworkIdle
    \/ SettleQuiet
    \/ TargetIdle2
    \/ TargetPaint2
    \/ TargetSlide
    \/ TargetPaint3
    \/ TargetShot
    \/ DrvClose

Spec == Init /\ [][Next]_vars

\* The call with a driver that is scheduled: the event loop runs the one
\* coroutine of the call whenever it can continue, and every wait that has a
\* timeout ends.  One notebook of two targets, both server modes.
InitDriver ==
    /\ InitCall(MakeView(<<HtmlDiv, HtmlSlider, ChartBundle>>, NoCellIds))
    /\ options \in { [enabled |-> TRUE, scale |-> 40, server_mode |-> m] :
                        m \in {"static", "live"} }
    /\ filepath = [isnone |-> FALSE, s |-> "demo.py"]

SpecDriver == InitDriver /\ [][Next]_vars /\ WF_vars(Next)

(***************************************************************************)
(* The classifier, the orderer and the normalizer on their own: the call   *)
(* in static mode up to the normalized copy, from session views that       *)
(* exercise one cell's payload shape or the notebook order.                *)
(***************************************************************************)
\* injective sequences over S of length 0..n
RECURSIVE InjectiveSeqs(_, _)
InjectiveSeqs(S, n) ==
    IF n = 0 THEN { <<>> }
    ELSE LET shorter == InjectiveSeqs(S, n - 1)
         IN  shorter \cup
             { Append(q, x) : <<q, x>> \in
                 { <<q, x>> \in shorter \X S :
                     Len(q) = n - 1 /\ \A i \in 1..Len(q) : q[i] # x } }

Openers == { <<"<">>, <<"&lt;">>, <<>> }
Names == { <<"marimo-", "anywidget">>, <<"marimo-", "slider">>, <<"div">> }
Tails == { <<>>, <<VEGALITE_V6>> }
\* the texts of single-part outputs
Texts == { o \o n \o t : <<o, n, t>> \in Openers \X Names \X Tails }

SingleMimeTypes == { TEXT_HTML, TEXT_PLAIN, TEXT_MARKDOWN, VEGALITE_V5, IMAGE_SVG }
SingleData ==
    { PyStr(t) : t \in Texts }
    \cup { PyStr(<<"&lt;", "marimo-", "anywidget", "&gt;">>) }
    \cup { PyList(<<ObjItem, StrItem(t)>>) : t \in Texts }
    \cup { PyNone, PyObj, PyList(<<>>) }

\* the contents of a bundle part
PartContents ==
    { PyStr(<<"vega">>),
      PyStr(<<"&lt;", "marimo-", "anywidget", "&gt;">>),
      PyStr(<<"<", "marimo-", "slider", ">", VEGALITE_V6>>),
      PyObj, PyNone }

\* bundles of up to MaxParts parts
Bundles ==
    { [i \in 1..Len(ms) |-> Part(ms[i], cs[i])] :
        <<ms, cs>> \in
            UNION { { <<m, c>> : c \in [1..Len(m) -> PartContents] } :
                    m \in InjectiveSeqs(SingleMimeTypes, MaxParts) } }

\* json.dumps of a bundle
JsonValue(val) ==
    IF val.k = "str" THEN <<QUOTE>> \o val.items[1].s \o <<QUOTE>>
    ELSE IF val.k = "none" THEN <<"null">> ELSE <<"1">>

RECURSIVE JsonMembersOf(_)
JsonMembersOf(parts) ==
    IF parts = <<>> THEN <<>>
    ELSE (IF Len(parts) = 1 THEN <<>>
          ELSE JsonMembersOf(SubSeq(parts, 1, Len(parts) - 1)) \o <<",">>)
         \o <<QUOTE, parts[Len(parts)].mime, QUOTE, ":">>
         \o JsonValue(parts[Len(parts)].val)

json_dumps(parts) == <<"{">> \o JsonMembersOf(parts) \o <<"}">>

\* bundle payloads that do not decode to a map
MalformedBundles ==
    { PyStr(<<>>), PyStr(<<"{">>), PyStr(<<"[", "]">>), PyStr(<<"1">>),
      PyStr(<<"{", QUOTE, TEXT_HTML, QUOTE, "}">>),
      PyStr(<<QUOTE, "<", "marimo-", "slider", QUOTE>>),
      PyStr(<<"<", "marimo-", "slider", ">">>),
      PyStr(<<LONG_INT>>),
      PyObj, PyList(<<StrItem(<<"<", "marimo-", "slider", ">">>)>>) }

\* the outputs of the cell whose payload shape is exercised
RichPool ==
    { Output(m, d) : <<m, d>> \in SingleMimeTypes \X SingleData }
    \cup { Output(MIMEBUNDLE_TYPE, PyDict(b)) : b \in Bundles }
    \cup { Output(MIMEBUNDLE_TYPE, PyStr(json_dumps(b))) : b \in Bundles }
    \cup { Output(MIMEBUNDLE_TYPE, d) : d \in MalformedBundles }
    \cup { Output(MIMEBUNDLE_TYPE, PyNone), NoOutput }

BasicPool == { HtmlDiv, HtmlSlider }

\* two cells, one of them with any payload shape
ClassifyViews ==
    { MakeView(IF first THEN <<rich, basic>> ELSE <<basic, rich>>, NoCellIds) :
        <<rich, basic, first>> \in RichPool \X BasicPool \X BOOLEAN }

OrderPool == { HtmlDiv, HtmlSlider, ChartBundle }

\* 1..MaxCells cells, any notebook order over the cell ids
OrderViews ==
    { MakeView(outs, ids) :
        <<outs, ids>> \in
            (UNION { [1..n -> OrderPool] : n \in 1..MaxCells })
            \X ({ NoCellIds }
                \cup { SomeCellIds(q) : q \in InjectiveSeqs(CellIds, MaxCells) }) }

InitTargets ==
    /\ \E made \in ClassifyViews \cup OrderViews : InitCall(made)
    /\ options = [enabled |-> TRUE, scale |-> 40, server_mode |-> "static"]
    /\ filepath = [isnone |-> TRUE, s |-> ""]

NextTargets ==
    \/ CollectEntry
    \/ SortAndPlan
    \/ Dispatch
    \/ StaticEnter
    \/ StaticPromote

SpecTargets == InitTargets /\ [][NextTargets]_vars

(***************************************************************************)
(* HtmlAssetServer with its request-handler threads                        *)
(*                                                                         *)
(* ThreadingHTTPServer runs do_GET of every request in a thread of its own *)
(* while the main thread calls set_html.  Assigning the attribute          *)
(* dynamic_html swaps one reference to an immutable str.                   *)
(***************************************************************************)
\* the variables the server does not touch
outside == << session_view, heap, view_before, options, filepath, targets,
              server_mode, phase, capture_view, live, drv, captures, result,
              notebook, injection >>

\* the names of the handler threads
Handlers == { ToString(i) : i \in 1..MaxRequests }
DYNAMIC_ROUTE == "/__marimo_pdf_raster__.html"
Routes == { DYNAMIC_ROUTE, "/assets/index.js" }

\* the documents passed to set_html
Htmls == { <<"<html", "v1", ">">>, <<"<html", "v2", ">">> }

\* str.encode("utf-8"), token by token
encode(text) == [i \in 1..Len(text) |-> <<"utf-8", text[i]>>]

Handler0 == [pc |-> "idle", route |-> "", html |-> <<"unbound">>]

InitServer ==
    /\ InitCall(CHOOSE made \in PipelineViews : TRUE)
    /\ options = [enabled |-> TRUE, scale |-> 40, server_mode |-> "static"]
    /\ filepath = [isnone |-> TRUE, s |-> ""]

\* __enter__, lines 68-86; the handler threads exist from the first request on
ServerEnter ==
    /\ pc = "start"
    /\ \E found \in BOOLEAN :
        IF found
        THEN /\ html_server' = [html_server EXCEPT
                    !.server = "set", !.thread = "set", !.socket = "open",
                    !.serving = "running", !.dynamic_html = <<>>,
                    !.lock = "free",
                    !.handlers = [h \in Handlers |-> Handler0]]
             /\ pc' = "body"
             /\ UNCHANGED exc
        ELSE /\ exc' = Exc("RuntimeError", "static_enter")
             /\ pc' = "raised"
             /\ UNCHANGED html_server
    /\ UNCHANGED << outside, html, hist >>

\* set_html(html), lines 62-64
SetHtmlCall ==
    /\ pc \in {"body", "closed"}
    /\ Cardinality(hist.written) < MaxSetHtml
    /\ \E value \in Htmls \ hist.written :
        IF html_server.server = "none"
        THEN /\ exc' = Exc("RuntimeError", "set_html")
             /\ pc' = "raised"
             /\ UNCHANGED << html, hist >>
        ELSE /\ html' = value
             /\ hist' = [hist EXCEPT !.written = @ \cup {value},
                                     !.set_html_calls = @ + 1]
             /\ pc' = "set_html_lock"
             /\ UNCHANGED exc
    /\ UNCHANGED << outside, html_server >>

\* line 65: with self._server.dynamic_html_lock
SetHtmlAcquire ==
    /\ pc = "set_html_lock"
    /\ html_server.lock = "free"
    /\ html_server' = [html_server EXCEPT !.lock = "main"]
    /\ pc' = "set_html_write"
    /\ UNCHANGED << outside, html, hist, exc >>

\* line 66: self._server.dynamic_html = html
SetHtmlWrite ==
    /\ pc = "set_html_write"
    /\ html_server' = [html_server EXCEPT !.dynamic_html = html]
    /\ hist' = [hist EXCEPT !.accesses = @ \cup
                  {[who |-> "main", kind |-> "write",
                    held |-> html_server.lock = "main"]}]
    /\ pc' = "set_html_unlock"
    /\ UNCHANGED << outside, html, exc >>

\* the end of the with-block of line 65
SetHtmlRelease ==
    /\ pc = "set_html_unlock"
    /\ html_server' = [html_server EXCEPT !.lock = "free"]
    /\ pc' = "body"
    /\ UNCHANGED << outside, html, hist, exc >>

\* a request arrives while serve_forever runs: do_GET, lines 17-20 and 29
DoGetRoute(h) ==
    /\ h \in DOMAIN html_server.handlers
    /\ html_server.serving = "running"
    /\ html_server.handlers[h].pc = "idle"
    /\ \E route \in Routes :
        html_server' = [html_server EXCEPT
            !.handlers[h].route = route,
            !.handlers[h].pc = IF route = DYNAMIC_ROUTE THEN "lock" ELSE "done"]
    /\ UNCHANGED << outside, pc, html, hist, exc >>

\* faulty variant of DoGetAcquire: the handler does not take the lock; C11
\* does not hold of it
DoGetAcquire_without_lock(h) ==
    /\ h \in DOMAIN html_server.handlers
    /\ html_server.handlers[h].pc = "lock"
    /\ html_server' = [html_server EXCEPT !.handlers[h].pc = "read"]
    /\ UNCHANGED << outside, pc, html, hist, exc >>

\* line 21: with server.dynamic_html_lock
DoGetAcquire(h) ==
    /\ h \in DOMAIN html_server.handlers
    /\ html_server.handlers[h].pc = "lock"
    /\ html_server.lock = "free"
    /\ html_server' = [html_server EXCEPT
                         !.lock = h, !.handlers[h].pc = "read"]
    /\ UNCHANGED << outside, pc, html, hist, exc >>

\* line 22: html = server.dynamic_html
DoGetRead(h) ==
    /\ h \in DOMAIN html_server.handlers
    /\ html_server.handlers[h].pc = "read"
    /\ html_server' = [html_server EXCEPT
                         !.handlers[h].html = html_server.dynamic_html,
                         !.handlers[h].pc = "unlock"]
    /\ hist' = [hist EXCEPT !.accesses = @ \cup
                  {[who |-> h, kind |-> "read", held |-> html_server.lock = h]}]
    /\ UNCHANGED << outside, pc, html, exc >>

\* the end of the with-block of line 21
DoGetRelease(h) ==
    /\ h \in DOMAIN html_server.handlers
    /\ html_server.handlers[h].pc = "unlock"
    /\ html_server' = [html_server EXCEPT
                         !.lock = IF @ = h THEN "free" ELSE @,
                         !.handlers[h].pc = "send"]
    /\ UNCHANGED << outside, pc, html, hist, exc >>

\* lines 23-28: the response, its body html.encode("utf-8")
DoGetSend(h) ==
    /\ h \in DOMAIN html_server.handlers
    /\ html_server.handlers[h].pc = "send"
    /\ html_server' = [html_server EXCEPT !.handlers[h].pc = "done"]
    /\ hist' = [hist EXCEPT
                  !.served = @ \cup {encode(html_server.handlers[h].html)}]
    /\ UNCHANGED << outside, pc, html, exc >>

\* __exit__, lines 88-102; handler threads are daemon threads and go on
ServerExit ==
    /\ pc = "body"
    /\ html_server' = [html_server EXCEPT
            !.shutdown = TRUE, !.serving = "stopped", !.socket = "closed",
            !.server = "none", !.joined = TRUE, !.thread = "none"]
    /\ pc' = "closed"
    /\ UNCHANGED << outside, html, hist, exc >>

NextServer ==
    \/ ServerEnter
    \/ SetHtmlCall
    \/ SetHtmlAcquire
    \/ SetHtmlWrite
    \/ SetHtmlRelease
    \/ \E h \in Handlers : DoGetRoute(h)
    \/ \E h \in Handlers : DoGetAcquire(h)
    \/ \E h \in Handlers : DoGetRead(h)
    \/ \E h \in Handlers : DoGetRelease(h)
    \/ \E h \in Handlers : DoGetSend(h)
    \/ ServerExit

SpecServer == InitServer /\ [][NextServer]_vars

(***************************************************************************)
(* The call over a range of scale options                                  *)
(***************************************************************************)
\* scale options in tenths, from below zero to MaxScale
ScaleRange == (0 - MaxScale)..MaxScale

InitScale ==
    /\ InitCall(MakeView(<<HtmlDiv, PlainWidget>>, NoCellIds))
    /\ options \in [enabled : {TRUE}, scale : ScaleRange,
                    server_mode : {"static", "live"}]
    /\ filepath = [isnone |-> FALSE, s |-> "demo.py"]

SpecScale == InitScale /\ [][Next]_vars

(***************************************************************************)
(* _nbformat_png_fallbacks.py: inject_png_fallbacks_into_notebook          *)
(*                                                                         *)
(* notebook: [cells_islist, cells]; a cell: [isdict, cell_type, id,        *)
(* outputs] with id = [isstr, s] and outputs = [islist, items]; an output: *)
(* [isdict, output_type, data] with data a dict value or another value.    *)
(* The metadata of cells and outputs is left out: no line reads it.        *)
(***************************************************************************)
IMAGE_PNG == "image/png"
MIME_TYPES_REPLACED_BY_PNG ==
    { TEXT_HTML, TEXT_PLAIN, TEXT_MARKDOWN } \cup VEGA_MIME_TYPES
_DISPLAY_OUTPUT_TYPES == { "display_data", "execute_result" }
_PNG_DATA_URL_PREFIX == << "data:", "image/png", ";base64," >>

\* str.startswith, str.removeprefix
startswith(text, prefix) ==
    Len(text) >= Len(prefix) /\ SubSeq(text, 1, Len(prefix)) = prefix

removeprefix(text, prefix) ==
    IF startswith(text, prefix)
    THEN SubSeq(text, Len(prefix) + 1, Len(text)) ELSE text

\* faulty variant of _to_png_payload: a PNG data URL is passed on whole; C33
\* does not hold of it
_to_png_payload_keeps_prefix(data_url_or_payload) ==
    IF startswith(data_url_or_payload, _PNG_DATA_URL_PREFIX)
    THEN [isnone |-> FALSE, s |-> data_url_or_payload]
    ELSE IF startswith(data_url_or_payload, <<"data:">>)
    THEN [isnone |-> TRUE, s |-> <<>>]
    ELSE [isnone |-> FALSE, s |-> data_url_or_payload]

\* lines 19-24: [isnone, s]
_to_png_payload(data_url_or_payload) ==
    IF startswith(data_url_or_payload, _PNG_DATA_URL_PREFIX)
    THEN [isnone |-> FALSE,
          s |-> removeprefix(data_url_or_payload, _PNG_DATA_URL_PREFIX)]
    ELSE IF startswith(data_url_or_payload, <<"data:">>)
    THEN [isnone |-> TRUE, s |-> <<>>]
    ELSE [isnone |-> FALSE, s |-> data_url_or_payload]

NbOutput(output_type, data) ==
    [isdict |-> TRUE, output_type |-> output_type, data |-> data]

\* lines 61-68: the place of the first display output, if any
FirstDisplay(outputs) ==
    LET at == { i \in 1..Len(outputs) :
                  /\ outputs[i].isdict
                  /\ outputs[i].output_type \in _DISPLAY_OUTPUT_TYPES }
    IN  IF at = {} THEN [found |-> FALSE, at |-> Len(outputs) + 1]
        ELSE [found |-> TRUE, at |-> CHOOSE i \in at : \A j \in at : i <= j]

\* faulty variant of PopReplaced: only text/html is popped; C16 does not hold
\* of it
PopReplaced_html_only(parts) ==
    SelectSeq(parts, LAMBDA part : part.mime # TEXT_HTML)

\* lines 83-84: data.pop(mime_type, None) for every replaced type
PopReplaced(parts) ==
    SelectSeq(parts, LAMBDA part : part.mime \notin MIME_TYPES_REPLACED_BY_PNG)

\* lines 78-85 on the display output chosen
InjectIntoOutput(display_output, png_payload) ==
    LET data == IF display_output.data.k = "dict"
                THEN display_output.data.parts ELSE <<>>
    IN  [display_output EXCEPT
           !.data = PyDict(DictSet(PopReplaced(data), IMAGE_PNG,
                                   PyStr(png_payload)))]

\* faulty variant of WithDisplayOutput: a cell without display output gets
\* its new output in front of the others; C17 does not hold of it
WithDisplayOutput_prepends(outputs) ==
    IF FirstDisplay(outputs).found THEN outputs
    ELSE << NbOutput("display_data", PyDict(<<>>)) >> \o outputs

\* faulty variant of WithDisplayOutput: a new display_data output is
\* appended whether or not the cell has a display output; C36 does not hold
\* of it
WithDisplayOutput_always_appends(outputs) ==
    Append(outputs, NbOutput("display_data", PyDict(<<>>)))

\* lines 70-76: a new display_data output is appended when there is none
WithDisplayOutput(outputs) ==
    IF FirstDisplay(outputs).found THEN outputs
    ELSE Append(outputs, NbOutput("display_data", PyDict(<<>>)))

\* png_fallbacks.get(cell_id): [isnone, s]
FallbackGet(png_fallbacks, cell_id) ==
    IF cell_id \in DOMAIN png_fallbacks
    THEN [isnone |-> FALSE, s |-> png_fallbacks[cell_id]]
    ELSE [isnone |-> TRUE, s |-> <<>>]

\* lines 39-86, one cell: [cell, injected]
InjectCell(cell, png_fallbacks) ==
    LET skip == [cell |-> cell, injected |-> FALSE]
    IN  IF ~cell.isdict THEN skip
        ELSE IF cell.cell_type # "code" THEN skip
        ELSE IF ~cell.id.isstr THEN skip
        ELSE LET data_url == FallbackGet(png_fallbacks, cell.id.s)
             IN  IF data_url.isnone \/ data_url.s = <<>> THEN skip
                 ELSE LET png_payload == _to_png_payload(data_url.s)
                      IN  IF png_payload.isnone THEN skip
                          ELSE IF ~cell.outputs.islist THEN skip
                          ELSE LET outputs == WithDisplayOutput(cell.outputs.items)
                                   at == FirstDisplay(outputs).at
                               IN  [cell |->
                                      [cell EXCEPT !.outputs.items =
                                         [outputs EXCEPT ![at] =
                                            InjectIntoOutput(outputs[at],
                                                             png_payload.s)]],
                                    injected |-> TRUE]

\* lines 27-88: [notebook, injected_count]
inject_png_fallbacks_into_notebook(nb, png_fallbacks) ==
    IF ~nb.cells_islist THEN [notebook |-> nb, injected_count |-> 0]
    ELSE LET done == [i \in 1..Len(nb.cells) |->
                        InjectCell(nb.cells[i], png_fallbacks)]
         IN  [notebook |-> [nb EXCEPT !.cells =
                              [i \in 1..Len(nb.cells) |-> done[i].cell]],
              injected_count |->
                Cardinality({ i \in 1..Len(nb.cells) : done[i].injected })]

\* the call of the injector
Inject ==
    /\ ~injection.done
    /\ LET out == inject_png_fallbacks_into_notebook(notebook,
                                                     injection.png_fallbacks)
       IN  /\ notebook' = out.notebook
           /\ injection' = [injection EXCEPT
                              !.done = TRUE,
                              !.injected_count = out.injected_count]
    /\ UNCHANGED << session_view, heap, view_before, options, filepath, pc,
                    targets, server_mode, phase, capture_view, html_server,
                    live, drv, html, captures, hist, exc, result >>

\* the outputs a cell may hold
NbOutputPool ==
    { NbOutput("display_data",
               PyDict(<< Part(TEXT_HTML, PyStr(<<"<", "div", ">">>)),
                         Part(TEXT_PLAIN, PyStr(<<"hello">>)),
                         Part("application/vnd.vega.v5+json", PyObj) >>)),
      NbOutput("execute_result",
               PyDict(<< Part(IMAGE_SVG, PyStr(<<"<", "svg", ">">>)),
                         Part(IMAGE_PNG, PyStr(<<"b", "2", "x", "k">>)),
                         Part(TEXT_MARKDOWN, PyStr(<<"hello">>)) >>)),
      NbOutput("display_data", PyNone),
      NbOutput("stream", PyNone),
      [isdict |-> FALSE, output_type |-> "", data |-> PyNone] }

NbCell(cell_type, id, outputs) ==
    [isdict |-> TRUE, cell_type |-> cell_type, id |-> id, outputs |-> outputs]

NbOutputLists ==
    { [islist |-> FALSE, items |-> <<>>] }
    \cup { [islist |-> TRUE, items |-> items] :
             items \in UNION { [1..n -> NbOutputPool] : n \in 0..MaxOutputs } }

\* the cell whose shape is exercised
RichCells ==
    { [isdict |-> FALSE, cell_type |-> "", id |-> [isstr |-> FALSE, s |-> ""],
       outputs |-> [islist |-> FALSE, items |-> <<>>]] }
    \cup { NbCell(cell_type, id, outputs) :
             <<cell_type, id, outputs>> \in
                {"code", "markdown"}
                \X { [isstr |-> TRUE, s |-> "1"], [isstr |-> FALSE, s |-> ""] }
                \X NbOutputLists }

\* its neighbour
PlainCells ==
    { NbCell("code", [isstr |-> TRUE, s |-> "2"], [islist |-> TRUE, items |-> <<>>]),
      NbCell("code", [isstr |-> TRUE, s |-> "2"],
             [islist |-> TRUE,
              items |-> << NbOutput("stream", PyNone),
                           NbOutput("execute_result",
                                    PyDict(<< Part(TEXT_PLAIN, PyStr(<<"hello">>)) >>)) >>]) }

Notebooks ==
    { [cells_islist |-> FALSE, cells |-> <<>>] }
    \cup { [cells_islist |-> TRUE,
            cells |-> IF first THEN <<rich, plain>> ELSE <<plain, rich>>] :
             <<rich, plain, first>> \in RichCells \X PlainCells \X BOOLEAN }

\* what a fallback mapping may hold for a cell: a PNG data URL, a bare
\* payload, a data URL of another type, the empty string, the PNG prefix with
\* nothing after it, a PNG data URL that is not base64
FallbackValues ==
    { _to_data_url(image) : image \in Images }
    \cup { <<"Y", "W", "J", "j">>,
           <<"data:", "image/jpeg", ";base64,", "Y", "W", "J", "j">>,
           <<>>,
           _PNG_DATA_URL_PREFIX,
           <<"data:", "image/png", ",", "Y", "W", "J", "j">> }

FallbackMaps ==
    UNION { [ids -> FallbackValues] : ids \in SUBSET {"1", "2"} }

InitInject ==
    /\ InitPipeline(CHOOSE made \in PipelineViews : TRUE)
    /\ options = [enabled |-> TRUE, scale |-> 40, server_mode |-> "static"]
    /\ filepath = [isnone |-> TRUE, s |-> ""]
    /\ notebook \in Notebooks
    /\ \E png_fallbacks \in FallbackMaps :
         injection = [png_fallbacks |-> png_fallbacks, before |-> notebook,
                      done |-> FALSE, injected_count |-> 0, images |-> << >>,
                      again |-> FALSE, first |-> Injection0.first]

NextInject == Inject

SpecInject == InitInject /\ [][NextInject]_vars

\* a second call of the injector with the same notebook node and the same
\* fallback mapping
InjectAgain ==
    /\ injection.done
    /\ ~injection.again
    /\ LET out == inject_png_fallbacks_into_notebook(notebook,
                                                     injection.png_fallbacks)
       IN  /\ notebook' = out.notebook
           /\ injection' = [injection EXCEPT
                              !.again = TRUE,
                              !.first = [notebook |-> notebook,
                                         injected_count |->
                                           injection.injected_count],
                              !.injected_count = out.injected_count]
    /\ UNCHANGED << session_view, heap, view_before, options, filepath, pc,
                    targets, server_mode, phase, capture_view, html_server,
                    live, drv, html, captures, hist, exc, result >>

NextReinject == Inject \/ InjectAgain

SpecReinject == InitInject /\ [][NextReinject]_vars

(***************************************************************************)
(* The driver's values handed to the injector: every fallback value is the *)
(* data URL the driver makes of a screenshot's bytes.                      *)
(***************************************************************************)
ByteValues == { 0, 137, 255 }

\* the bytes of a screenshot: up to MaxBytes bytes
ByteStrings == UNION { [1..n -> ByteValues] : n \in 0..MaxBytes }

InitRoundTrip ==
    /\ InitPipeline(CHOOSE made \in PipelineViews : TRUE)
    /\ options = [enabled |-> TRUE, scale |-> 40, server_mode |-> "static"]
    /\ filepath = [isnone |-> TRUE, s |-> ""]
    /\ notebook \in Notebooks
    /\ \E image \in ByteStrings :
         injection = [png_fallbacks |-> [id \in {"1"} |-> _to_data_url(image)],
                      before |-> notebook, done |-> FALSE,
                      injected_count |-> 0,
                      images |-> [id \in {"1"} |-> image],
                      again |-> FALSE, first |-> Injection0.first]

NextRoundTrip == Inject

SpecRoundTrip == InitRoundTrip /\ [][NextRoundTrip]_vars

(***************************************************************************)
(* What the claims speak about                                             *)
(***************************************************************************)
SessionRefs ==
    { session_view.cell_notifications[i].output :
        i \in 1..Len(session_view.cell_notifications) } \ { NoneRef }

CaptureRefs ==
    { capture_view.view.cell_notifications[i].output :
        i \in 1..Len(capture_view.view.cell_notifications) } \ { NoneRef }

\* the cell ids of a list of targets
IdsOf(ts) == { ts[i].cell_id : i \in 1..Len(ts) }

\* the strings of a payload: itself, or the string items of a list
StringsOf(val) ==
    IF val.k = "str" THEN { val.items[1].s }
    ELSE IF val.k = "list"
    THEN { val.items[j].s : j \in { j \in 1..Len(val.items) : val.items[j].isstr } }
    ELSE {}

\* '<marimo-' or '&lt;marimo-' occurs in the payload
HasComponentMarker(val) ==
    \E str \in StringsOf(val) : \E i \in 1..(Len(str) - 1) :
        str[i] \in {"<", "&lt;"} /\ str[i + 1] = "marimo-"

\* '<marimo-anywidget' or '&lt;marimo-anywidget' occurs in the payload
HasWidgetMarker(val) ==
    \E str \in StringsOf(val) : \E i \in 1..(Len(str) - 2) :
        str[i] \in {"<", "&lt;"} /\ str[i + 1] = "marimo-" /\ str[i + 2] = "anywidget"

\* a chart-grammar MIME type occurs in the payload
HasVegaMarker(val) ==
    \E str \in StringsOf(val) : \E i \in 1..Len(str) : str[i] \in VEGA_MIME_TYPES

\* the parts of a cell's output before the call: the single part, or the
\* parts of the decoded bundle
PartsBefore(i) ==
    LET out == view_before.cells[i].output
    IN  IF out.mimetype = MIMEBUNDLE_TYPE THEN _load_mimebundle(out.data).parts
        ELSE << Part(out.mimetype, out.data) >>

NonEmptyBefore(i) ==
    view_before.cells[i].present /\ view_before.cells[i].output.data.k # "none"

EligiblePart(part) ==
    \/ part.mime \in VEGA_MIME_TYPES
    \/ /\ part.mime \in {"text/html", "text/plain", "text/markdown"}
       /\ HasComponentMarker(part.val)

\* the cells of the caller's view
CellsBefore == 1..Len(view_before.cells)

\* the cell's output, as the caller passed it, holds an anywidget marker
WidgetCell(cell_id) ==
    \E i \in CellsBefore :
        /\ view_before.cells[i].cell_id = cell_id
        /\ NonEmptyBefore(i)
        /\ \E p \in 1..Len(PartsBefore(i)) : HasWidgetMarker(PartsBefore(i)[p].val)

\* the call has returned the captures of a driver run
DriverReturned == pc = "returned" /\ drv.page_url # ""

\* the targets whose loop body has begun
Begun == 1..Len(hist.started)

TimedOut == {"ready_timeout", "shot_timeout"}

\* the classifier's list: the coordinator holds it in targets until it sorts
Classified == IF pc = "sort" THEN targets ELSE hist.classified

\* the classifier has returned its list
ClassifierReturned == pc # "start" /\ ~(pc = "raised" /\ exc.at = "classify")

LiveRequested == options.server_mode \in {"live", "LIVE"}

StaticRequested == options.server_mode \in {"static", "Static"}

(***************************************************************************)
(* C1..C10                                                                 *)
(***************************************************************************)
\* C1: when the call has returned or raised, every cell notification of the
\* caller's session view has the output mimetype and data it had before the
\* call, and the normalized copy shares no output object with the caller's view.
C1_SessionViewNotMutated ==
    /\ pc \in Terminal => DeepValue(heap, session_view) = view_before
    /\ capture_view.made => CaptureRefs \cap SessionRefs = {}

\* C1 witness: the call has ended with a normalized copy that differs from the
\* caller's view.
C1_Witness ==
    /\ pc \in Terminal
    /\ capture_view.made
    /\ DeepValue(heap, capture_view.view) # view_before

\* C2: when the live capture phase has ended by normal return, by an exception
\* raised during capture, by the subprocess exiting before ready or by the
\* startup health-check timeout, the subprocess is no longer running.
C2_LiveServerNeverOutlivesCall ==
    ( /\ phase = "live"
      /\ \/ pc = "returned"
         \/ /\ pc = "raised"
            /\ exc.at \in {"startup_exit", "startup_timeout", "drv_launch",
                           "drv_goto", "drv_ready", "t_visible", "t_shot"} )
    => live.process # "running"

\* C3: in static mode, once the asset server has started, when the call has
\* returned or raised the server has been signalled to shut down, its socket
\* is closed and its serving thread has been joined, and an exception of the
\* body is raised by the call.
C3_StaticServerReleased ==
    (pc \in Terminal /\ html_server.socket # "none")
    => /\ html_server.shutdown
       /\ html_server.socket = "closed"
       /\ html_server.serving = "stopped"
       /\ html_server.joined
       /\ html_server.server = "none" /\ html_server.thread = "none"
       /\ (exc.kind # "none") <=> (pc = "raised")

\* C3 witness: the page never became ready, the call raised that timeout and
\* the server is released.
C3_Witness ==
    /\ pc = "raised"
    /\ phase = "static"
    /\ exc = Exc("TimeoutError", "drv_ready")
    /\ html_server.joined

\* C4: a readiness or screenshot timeout on a target leaves it out of the
\* result and never ends the batch: no such timeout leaves the driver, a
\* target is in the result exactly when its loop body ended in a capture, and
\* a call that returns
\* after its driver ran has attempted every target.
C4_TimeoutsDoNotAbortBatch ==
    /\ \A j \in 1..Len(hist.outcomes) :
         (drv.targets[j].cell_id \in DOMAIN captures)
            <=> (hist.outcomes[j] = "captured")
    /\ exc.kind = "TimeoutError"
         => exc.at \in {"drv_goto", "drv_ready", "health_probe"}
    /\ DriverReturned
         => /\ Len(hist.started) = Len(drv.targets)
            /\ Len(hist.outcomes) = Len(drv.targets)
    /\ DriverReturned => result = captures

\* C4 witness: the call returned a result holding a target that came after a
\* target that timed out.
C4_Witness ==
    /\ pc = "returned"
    /\ \E i, j \in 1..Len(hist.outcomes) :
         /\ i < j
         /\ hist.outcomes[i] \in TimedOut
         /\ drv.targets[i].cell_id \notin DOMAIN result
         /\ drv.targets[j].cell_id \in DOMAIN result

\* C5: within one driver invocation the readiness waits begin in the order of
\* the given target list, and the wait of a target begins only when the loop
\* body of every earlier target has ended.
C5_TargetsInOrderOneAtATime ==
    /\ Len(hist.started) <= Len(drv.targets)
    /\ \A k \in Begun : hist.started[k] = drv.targets[k].cell_id
    /\ Len(hist.outcomes) <= Len(hist.started)
    /\ Len(hist.started) <= Len(hist.outcomes) + 1
    /\ drv.page_url # "" => drv.targets = targets

\* C5 witness: the second target's readiness wait is in progress, the first
\* target's loop body having ended.
C5_Witness ==
    /\ pc = "t_scroll"
    /\ Len(hist.started) = 2
    /\ Len(hist.outcomes) = 1

\* C6 as claimed: a target whose markup holds an anywidget marker is captured
\* against the live notebook runtime.
C6_WidgetTargetsUseLiveRuntime ==
    \A k \in Begun :
        WidgetCell(hist.started[k]) => drv.page_url = LIVE_PAGE_URL

\* C6 as amended: the server is chosen per call, by the server-mode option:
\* every target, a widget target included, is captured against the live
\* runtime when the mode is live and against the static re-export otherwise.
C6_ServerChosenByMode ==
    \A k \in Begun :
        /\ LiveRequested => drv.page_url = LIVE_PAGE_URL
        /\ ~LiveRequested => drv.page_url = STATIC_PAGE_URL

\* C6 witness: a widget target was captured against the static re-export.
C6_Witness ==
    \E k \in 1..Len(hist.outcomes) :
        /\ "anywidget" \in { drv.targets[k].expects[e] :
                               e \in 1..Len(drv.targets[k].expects) }
        /\ hist.outcomes[k] = "captured"
        /\ drv.page_url = STATIC_PAGE_URL

\* C7: a call that reaches the dispatch runs one capture phase, which gets
\* all targets in notebook order: in static mode the live server is never
\* started; in live mode the static server, the exporter and the normalized
\* copy are never used.
C7_OnePhaseGetsAllTargets ==
    /\ pc \notin {"start", "sort", "dispatch"} /\ targets # <<>>
         => phase = IF LiveRequested THEN "live" ELSE "static"
    /\ phase = "static" => live = Live0
    /\ phase = "live"
         => /\ html_server = HtmlServer0
            /\ hist.exporter_calls = 0
            /\ ~capture_view.made
            /\ Len(heap) = Cardinality(SessionRefs)
    /\ drv.page_url # ""
         => /\ drv.targets = _sort_targets_by_notebook_order(session_view,
                                                             hist.classified)
            /\ IdsOf(drv.targets) = IdsOf(hist.classified)
            /\ Len(drv.targets) = Len(hist.classified)
            /\ drv.page_url = IF phase = "live" THEN LIVE_PAGE_URL
                              ELSE STATIC_PAGE_URL

\* C7 witness: a static call returned captures of a widget target and of a
\* chart target.
C7_Witness ==
    /\ pc = "returned"
    /\ phase = "static"
    /\ \E i, j \in 1..Len(drv.targets) :
         /\ drv.targets[i].expects = <<"anywidget">>
         /\ drv.targets[j].expects = <<"vega">>
         /\ {drv.targets[i].cell_id, drv.targets[j].cell_id} \subseteq DOMAIN result

\* C8: a cell yields a capture target exactly when its output is present and
\* non-empty and, taken alone or decoded as a bundle, has a part that is a
\* chart-grammar type or a text-like type holding a component marker.
C8_TargetIffEligiblePart ==
    ClassifierReturned /\ options.enabled
    => /\ \A i \in CellsBefore :
            (\E k \in 1..Len(Classified) :
                Classified[k].cell_id = view_before.cells[i].cell_id)
            <=> (\E j \in CellsBefore :
                    /\ view_before.cells[j].cell_id = view_before.cells[i].cell_id
                    /\ NonEmptyBefore(j)
                    /\ LET parts == PartsBefore(j)
                       IN  \E p \in 1..Len(parts) : EligiblePart(parts[p]))
       /\ IdsOf(Classified) \subseteq
            { view_before.cells[i].cell_id : i \in CellsBefore }

\* C8 witness: a bundle given as JSON text whose second part alone is eligible
\* yielded a target, and another cell with a non-empty output yielded none.
C8_Witness ==
    /\ pc = "sort"
    /\ \E i, j \in CellsBefore :
         /\ view_before.cells[i].output.mimetype = MIMEBUNDLE_TYPE
         /\ view_before.cells[i].output.data.k = "str"
         /\ Len(PartsBefore(i)) = 2
         /\ ~EligiblePart(PartsBefore(i)[1])
         /\ EligiblePart(PartsBefore(i)[2])
         /\ view_before.cells[i].cell_id \in IdsOf(Classified)
         /\ NonEmptyBefore(j)
         /\ view_before.cells[j].cell_id \notin IdsOf(Classified)

\* the parts, of a list of parts, that show a widget, a chart
WidgetParts(parts) ==
    { p \in 1..Len(parts) : HasWidgetMarker(parts[p].val) }

VegaParts(parts) ==
    { p \in 1..Len(parts) :
        \/ parts[p].mime \in VEGA_MIME_TYPES
        \/ HasVegaMarker(parts[p].val) }

Least(S) == CHOOSE x \in S : \A y \in S : x <= y

\* C9: a target's expectations hold "anywidget" exactly when a part of the
\* output has a widget marker and "vega" exactly when a part is a
\* chart-grammar type or has a chart marker; they hold nothing else and
\* nothing twice, and the tag seen first stands first (within one part the
\* widget marker is looked for first).
C9_ExpectationTags ==
    ClassifierReturned /\ options.enabled
    => \A k \in 1..Len(Classified) :
         LET t == Classified[k]
             i == CHOOSE i \in CellsBefore :
                    /\ view_before.cells[i].cell_id = t.cell_id
                    /\ \A j \in CellsBefore :
                         view_before.cells[j].cell_id = t.cell_id => j <= i
             parts == PartsBefore(i)
             widget == WidgetParts(parts)
             vega == VegaParts(parts)
             tags == { t.expects[e] : e \in 1..Len(t.expects) }
         IN  /\ tags \subseteq {"anywidget", "vega"}
             /\ Len(t.expects) = Cardinality(tags)
             /\ ("anywidget" \in tags) <=> (widget # {})
             /\ ("vega" \in tags) <=> (vega # {})
             /\ (tags = {"anywidget", "vega"} /\ Least(widget) <= Least(vega))
                  => t.expects = <<"anywidget", "vega">>
             /\ (tags = {"anywidget", "vega"} /\ Least(vega) < Least(widget))
                  => t.expects = <<"vega", "anywidget">>

\* C9 witness: a bundle whose chart part comes before its widget part gave a
\* target tagged chart first, widget second, while both of its parts show a
\* chart.
C9_Witness ==
    /\ pc = "sort"
    /\ \E k \in 1..Len(Classified) : \E i \in CellsBefore :
         /\ view_before.cells[i].cell_id = Classified[k].cell_id
         /\ Classified[k].expects = <<"vega", "anywidget">>
         /\ Cardinality(VegaParts(PartsBefore(i))) = 2

\* position of a cell in the notebook's cell order, 0 when it is not there
\* (a repeated id counts at its last place)
NotebookPos(cell_id) ==
    LET ids == view_before.cell_ids.cell_ids
        at == { n \in 1..Len(ids) : ids[n] = cell_id }
    IN  IF at = {} THEN 0 ELSE CHOOSE n \in at : \A m \in at : m <= n

\* a comes before b in the classifier's list
FoundBefore(a, b) ==
    \E x, y \in 1..Len(hist.classified) :
        /\ x < y
        /\ hist.classified[x] = a
        /\ hist.classified[y] = b

\* C10: the ordered list holds the classifier's targets, each once; targets
\* of cells in the notebook's cell order stand by position, before every
\* target of an unknown cell; targets of equal position and of unknown cells
\* keep the order in which the classifier found them.
C10_NotebookOrderStable ==
    pc \notin {"start", "sort"}
    => /\ Len(targets) = Len(hist.classified)
       /\ \A t \in { hist.classified[k] : k \in 1..Len(hist.classified) } :
            Cardinality({ k \in 1..Len(targets) : targets[k] = t })
              = Cardinality({ k \in 1..Len(hist.classified) : hist.classified[k] = t })
       /\ view_before.cell_ids.isnone => targets = hist.classified
       /\ ~view_before.cell_ids.isnone
            => \A x, y \in 1..Len(targets) :
                 x < y =>
                   LET px == NotebookPos(targets[x].cell_id)
                       py == NotebookPos(targets[y].cell_id)
                   IN  /\ px = 0 => py = 0
                       /\ py # 0 => px <= py
                       /\ (px = py /\ targets[x] # targets[y])
                            => FoundBefore(targets[x], targets[y])

\* C10 witness: the sort moved a known cell's target in front of the targets
\* of two unknown cells, which kept their order.
C10_Witness ==
    /\ pc = "dispatch"
    /\ Len(targets) = 3
    /\ targets # hist.classified
    /\ NotebookPos(targets[1].cell_id) # 0
    /\ NotebookPos(targets[2].cell_id) = 0
    /\ NotebookPos(targets[3].cell_id) = 0
    /\ FoundBefore(targets[2], targets[3])
    /\ FoundBefore(targets[3], targets[1])

\* C11: whatever the interleaving of request handlers with set_html, a body
\* sent for the dynamic route is the encoding of the empty string or of one
\* whole value passed to set_html before, every read and write of the buffer
\* made once the serving thread runs is made by the holder of the lock, and
\* the lock has one holder at a time.
C11_BufferUnderLock ==
    /\ hist.served \subseteq { encode(<<>>) } \cup { encode(v) : v \in hist.written }
    /\ \A a \in hist.accesses : a.held
    /\ \A h \in DOMAIN html_server.handlers :
         html_server.handlers[h].pc \in {"read", "unlock"} => html_server.lock = h
    /\ pc \in {"set_html_write", "set_html_unlock"} => html_server.lock = "main"

\* C11 witness: the server is closed after two calls of set_html; one handler
\* read before the first write and sent the empty body, the other read
\* between the writes and sent the first value whole.
C11_Witness ==
    /\ pc = "closed"
    /\ Cardinality(hist.written) = 2
    /\ \E v \in hist.written :
         /\ v # html_server.dynamic_html
         /\ hist.served = { encode(<<>>), encode(v) }
    /\ Cardinality(hist.accesses) = 3

\* C12: once the server mode is normalized it is "static" or "live"; a value
\* that in lower case is neither gives "static", is warned about once, and
\* the call enters the static phase and never starts the live server; a
\* value that in lower case is one of the two gives that mode unwarned.
C12_UnknownModeIsStatic ==
    pc \notin {"start", "sort"} /\ targets # <<>>
    => /\ server_mode \in {"static", "live"}
       /\ (~LiveRequested /\ ~StaticRequested)
            => /\ server_mode = "static"
               /\ hist.warnings = << options.server_mode >>
               /\ phase \in {"none", "static"}
               /\ live = Live0
       /\ LiveRequested => server_mode = "live" /\ hist.warnings = <<>>
       /\ StaticRequested => server_mode = "static" /\ hist.warnings = <<>>

\* C12 witness: a call with the unknown mode "auto" returned captures made
\* against the static server.
C12_Witness ==
    /\ options.server_mode = "auto"
    /\ pc = "returned"
    /\ phase = "static"
    /\ result # EmptyMap
    /\ drv.page_url = STATIC_PAGE_URL

\* C13: in live mode with a filepath that is None or empty, the call returns
\* the empty mapping without raising, no subprocess is spawned, no log file
\* is made and no browser is launched.
C13_LiveWithoutFilepath ==
    ( /\ pc \notin {"start", "sort", "dispatch"}
      /\ targets # <<>>
      /\ LiveRequested
      /\ (filepath.isnone \/ filepath.s = "") )
    => /\ pc = "returned"
       /\ result = EmptyMap
       /\ exc = NoExc
       /\ live = Live0
       /\ drv = Drv0
       /\ hist.started = <<>>

\* C13 witness: a live call with targets and the empty string as filepath has
\* returned.
C13_Witness ==
    /\ pc = "returned"
    /\ phase = "live"
    /\ targets # <<>>
    /\ ~filepath.isnone
    /\ filepath.s = ""
    /\ result = EmptyMap

\* no cell of the caller's view has a non-empty output with an eligible part
NothingToCapture ==
    \A i \in CellsBefore :
        ~( /\ NonEmptyBefore(i)
           /\ LET parts == PartsBefore(i)
              IN  \E p \in 1..Len(parts) : EligiblePart(parts[p]) )

\* C14: when rasterization is disabled or no cell gives a target, the call
\* returns the empty mapping at once: no static server, no subprocess, no
\* exporter call, no browser, no normalized copy, no output object touched.
C14_NothingDoneWithoutTargets ==
    (pc # "start" /\ (~options.enabled \/ NothingToCapture))
    => /\ pc = "returned"
       /\ result = EmptyMap
       /\ exc = NoExc
       /\ html_server = HtmlServer0
       /\ live = Live0
       /\ drv = Drv0
       /\ hist = Hist0
       /\ phase = "none"
       /\ ~capture_view.made
       /\ Len(heap) = Cardinality(SessionRefs)
       /\ DeepValue(heap, session_view) = view_before

\* C14 witness: an enabled call on a view of plain markup only has returned.
C14_Witness ==
    /\ pc = "returned"
    /\ options.enabled
    /\ NothingToCapture
    /\ \A i \in CellsBefore : NonEmptyBefore(i)

\* C15: the device-scale factor of the browser context is 1.0 for every scale
\* option below 1.0 and the option itself for every scale at or above 1.0
\* (tenths: 10 stands for 1.0).
C15_ScaleClamped ==
    drv.context # "none"
    => /\ options.scale < 10 => drv.device_scale_factor = 10
       /\ options.scale >= 10 => drv.device_scale_factor = options.scale
       /\ drv.device_scale_factor >= 10

\* C15 witness: a capture was made in a context of factor 1.0 for the scale
\* option 0.5.
C15_Witness ==
    /\ options.scale = 5
    /\ drv.device_scale_factor = 10
    /\ captures # EmptyMap

\* the cells of the notebook handed to the injector
NbCells ==
    IF injection.before.cells_islist THEN 1..Len(injection.before.cells) ELSE {}

\* the value the fallback mapping holds for cell i is usable as a PNG: a
\* non-empty string that is a PNG data URL or no data URL at all
HasPngFallback(i) ==
    LET cell == injection.before.cells[i]
    IN  /\ cell.isdict
        /\ cell.cell_type = "code"
        /\ cell.id.isstr
        /\ cell.id.s \in DOMAIN injection.png_fallbacks
        /\ LET value == injection.png_fallbacks[cell.id.s]
           IN  /\ value # <<>>
               /\ value[1] = "data:"
                    => (Len(value) >= 3 /\ value[2] = "image/png"
                          /\ value[3] = ";base64,")
        /\ cell.outputs.islist

\* the base64 payload of cell i's fallback, the data-URL prefix taken off
PayloadOf(i) ==
    LET value == injection.png_fallbacks[injection.before.cells[i].id.s]
    IN  IF value[1] = "data:" THEN SubSeq(value, 4, Len(value)) ELSE value

OutputsBefore(i) == injection.before.cells[i].outputs.items
OutputsAfter(i) == notebook.cells[i].outputs.items

\* the places of the display outputs of cell i before the call
DisplaysBefore(i) ==
    { d \in 1..Len(OutputsBefore(i)) :
        /\ OutputsBefore(i)[d].isdict
        /\ OutputsBefore(i)[d].output_type \in {"display_data", "execute_result"} }

ReplacedTypes ==
    { "text/html", "text/plain", "text/markdown",
      "application/vnd.vegalite.v5+json", "application/vnd.vega.v5+json",
      "application/vnd.vegalite.v6+json", "application/vnd.vega.v6+json" }

\* C16: for a code cell with a PNG fallback and a display output, the first
\* display output loses every text/html, text/plain, text/markdown and
\* chart-grammar part, keeps its other parts, and has as image/png the
\* payload without the data-URL prefix; the other outputs stay; the count
\* returned has every such cell once.
C16_DisplayOutputReplaced ==
    injection.done
    => /\ \A i \in NbCells :
            (HasPngFallback(i) /\ DisplaysBefore(i) # {})
            => LET d == Least(DisplaysBefore(i))
                   was == OutputsBefore(i)[d]
                   now == OutputsAfter(i)[d]
                   kept == IF was.data.k = "dict"
                           THEN SelectSeq(was.data.parts,
                                          LAMBDA part : part.mime \notin ReplacedTypes
                                                        /\ part.mime # "image/png")
                           ELSE <<>>
               IN  /\ Len(OutputsAfter(i)) = Len(OutputsBefore(i))
                   /\ \A j \in 1..Len(OutputsBefore(i)) :
                        j # d => OutputsAfter(i)[j] = OutputsBefore(i)[j]
                   /\ now.output_type = was.output_type
                   /\ now.data.k = "dict"
                   /\ \A p \in 1..Len(now.data.parts) :
                        now.data.parts[p].mime \notin ReplacedTypes
                   /\ Cardinality({ p \in 1..Len(now.data.parts) :
                                      now.data.parts[p].mime = "image/png" }) = 1
                   /\ \E p \in 1..Len(now.data.parts) :
                        now.data.parts[p] = Part("image/png", PyStr(PayloadOf(i)))
                   /\ SelectSeq(now.data.parts,
                                LAMBDA part : part.mime # "image/png") = kept
       /\ injection.injected_count
            = Cardinality({ i \in NbCells : HasPngFallback(i) })

\* C16 witness: a cell whose first output is a stream and whose second is an
\* execute_result with a markdown part, an svg part and an old image/png got
\* the payload of a PNG data URL there.
C16_Witness ==
    /\ injection.done
    /\ \E i \in NbCells :
         /\ HasPngFallback(i)
         /\ injection.png_fallbacks[injection.before.cells[i].id.s][1] = "data:"
         /\ DisplaysBefore(i) = {2}
         /\ OutputsBefore(i)[2].output_type = "execute_result"
         /\ Len(OutputsBefore(i)[2].data.parts) = 3
         /\ Len(OutputsAfter(i)[2].data.parts) = 2
    /\ injection.injected_count = 2

\* C17: for a code cell with a PNG fallback and no display output, the
\* outputs after the call are the outputs before it followed by one new
\* display_data output whose data holds the image/png payload and nothing
\* else.
C17_DisplayOutputAppended ==
    injection.done
    => \A i \in NbCells :
         (HasPngFallback(i) /\ DisplaysBefore(i) = {})
         => OutputsAfter(i)
              = Append(OutputsBefore(i),
                       [isdict |-> TRUE, output_type |-> "display_data",
                        data |-> PyDict(<< Part("image/png",
                                                PyStr(PayloadOf(i))) >>)])

\* C17 witness: a cell with no output at all and a cell with a stream output
\* and an output that is no dict both got their display output appended.
C17_Witness ==
    /\ injection.done
    /\ \E i, j \in NbCells :
         /\ HasPngFallback(i) /\ HasPngFallback(j)
         /\ OutputsBefore(i) = <<>>
         /\ Len(OutputsAfter(i)) = 1
         /\ Len(OutputsBefore(j)) = 2
         /\ DisplaysBefore(j) = {}
         /\ Len(OutputsAfter(j)) = 3

\* the cell notifications the caller passed, in the classifier's loop order
NotesBefore == session_view.cell_notifications

\* notification i holds a non-empty bundle output whose payload is neither a
\* map nor a text that decodes to a JSON object
MalformedBundle(i) ==
    LET note == NotesBefore[i]
    IN  /\ note.output # NoneRef
        /\ heap[note.output].mimetype = MIMEBUNDLE_TYPE
        /\ LET data == heap[note.output].data
           IN  /\ data.k \notin {"none", "dict"}
               /\ ~(/\ data.k = "str"
                     /\ json_loads(data.items[1].s).ok
                     /\ json_loads(data.items[1].s).val.k = "dict")

\* the classifier's list for the same notifications without notification i
ClassifiedWithout(i) ==
    CollectFrom(heap, SubSeq(NotesBefore, 1, i - 1)
                      \o SubSeq(NotesBefore, i + 1, Len(NotesBefore)))

\* C18: a cell whose bundle payload is malformed (text that is not JSON, JSON
\* that is not an object, a payload that is neither a map nor text) never
\* makes the classification raise, and the classifier's list is the one it
\* builds for the other cells alone.
C18_MalformedBundleOnlyExcluded ==
    pc # "start" /\ options.enabled
    => \A i \in 1..Len(NotesBefore) :
         MalformedBundle(i)
         => /\ ~(pc = "raised" /\ exc.at = "classify")
            /\ Classified = ClassifiedWithout(i)

\* the live phase has ended: the call has returned or raised after the
\* temporary log file was created
LivePhaseEnded == phase = "live" /\ pc \in Terminal /\ live.log_file # "none"

\* C19: when the live phase has ended (normal teardown, teardown after an
\* exception of the capture body, teardown whose wait after the force-kill
\* times out, startup failure by early exit or health-check timeout) the
\* temporary log file has been through its deletion: it is deleted, or its
\* deletion failed and the failure was not raised.
C19_LogFileAlwaysDeleted ==
    LivePhaseEnded
    => /\ live.log_file \in {"deleted", "kept"}
       /\ live.log_file = "kept" => exc.at # "live_cleanup"

\* the capture driver was handed the live server's page
HandedToDriver == drv.page_url = LIVE_PAGE_URL

\* C20: the live server's enter returns, and the capture driver gets the live
\* page, only after a health probe gave status 200 in a loop iteration in
\* which the subprocess was seen running; the browser only ever navigates to
\* a live server that passed the health check.
C20_HealthCheckedBeforeCapture ==
    /\ live.ready => live.health = "200" /\ live.alive_seen
    /\ HandedToDriver => live.ready
    /\ phase = "live" /\ drv.browser # "none" => HandedToDriver /\ live.ready

\* C20 witness: a probe that did not succeed was followed by one that did,
\* and the call returned a capture made on the live page.
C20_Witness ==
    /\ pc = "returned"
    /\ phase = "live"
    /\ HandedToDriver
    /\ live.polls >= 1
    /\ live.health = "200"
    /\ result # EmptyMap

\* the startup loop of the live server has been entered and left
StartupEnded ==
    phase = "live" /\ live.log_file # "none" /\ pc \notin {"live_enter", "live_poll"}

StartupFailures == {"startup_exit", "startup_timeout"}

\* C21: the startup polling of the live server ends in exactly one of three
\* ways: a successful health probe (ready), the subprocess exiting, the
\* startup timeout (the last two raised as RuntimeError); a health probe that
\* does not succeed, whatever its kind, never ends the startup.
C21_StartupEndsThreeWays ==
    StartupEnded
    => \/ live.ready /\ ~(pc = "raised" /\ exc.at \in StartupFailures)
       \/ /\ ~live.ready
          /\ pc = "raised"
          /\ exc.kind = "RuntimeError"
          /\ exc.at \in StartupFailures

\* C22: the live server is shut down by terminate, then kill.  A process
\* that poll() finds exited gets no signal; otherwise terminate is sent
\* first, and kill only after the wait that followed terminate timed out
\* with the process alive; a second wait follows the kill.  kill is never
\* sent without a terminate before it.
C22_TerminateThenKill ==
    /\ live.signals \in {<<>>, <<"terminate">>, <<"terminate", "kill">>}
    /\ live.reaped = "poll" => live.signals = <<>>
    /\ live.reaped = "wait" => live.signals = <<"terminate">>
    /\ pc = "live_kill"
       => live.signals = <<"terminate">> /\ live.process = "running"
    /\ live.signals = <<"terminate", "kill">>
       <=> live.reaped \in {"wait_after_kill", "never"}
    /\ live.process = "exited" /\ live.reaped = "none" => live.signals = <<>>

\* C22 witness: a live server that did not exit on terminate was killed and
\* then waited for, and the call returned its captures.
C22_Witness ==
    /\ pc = "returned"
    /\ live.signals = <<"terminate", "kill">>
    /\ live.reaped = "wait_after_kill"
    /\ result # EmptyMap

\* control is inside __enter__ or __exit__ of the live server: the instance
\* is between two states of its lifecycle
InLiveTransition == pc \in {"live_poll", "live_exit", "live_kill", "live_cleanup"}

\* __exit__ has run, to its end or to the exception that left it
LiveTornDown ==
    \/ live.log_file \in {"deleted", "kept"}
    \/ pc = "raised" /\ exc.at = "live_kill"

\* C23: outside its transitions a live server instance is not started, ready
\* or torn down; its subprocess exists only while it is ready, and once torn
\* down it stays so: nothing is spawned or signalled again.
C23_TwoStateLifecycle ==
    ~InLiveTransition
    => /\ live.process = "running" => live.ready /\ ~LiveTornDown
       /\ LiveTornDown => pc \in Terminal /\ live.ready

\* the static phase's driver has been called
StaticDriverCalled == phase = "static" /\ drv.page_url # ""

\* C24: in the static phase the asset server is started first, the document
\* is exported with the running server's base URL as its asset URL, it is
\* published to the dynamic route exactly once, only then does the driver
\* navigate to the page, and the server is shut down only after the driver
\* has finished.
C24_StartThenPublish ==
    phase = "static"
    => /\ hist.exporter_calls >= 1 => html_server.socket # "none"
       /\ pc = "static_publish"
          => /\ html = ExportedHtml(STATIC_BASE_URL)
             /\ html_server.serving = "running"
             /\ hist.set_html_calls = 0
       /\ hist.set_html_calls <= 1
       /\ hist.set_html_calls = 1
          => /\ html_server.dynamic_html = ExportedHtml(STATIC_BASE_URL)
             /\ hist.exporter_calls = 1
       /\ StaticDriverCalled
          => /\ drv.page_url = STATIC_PAGE_URL
             /\ hist.set_html_calls = 1
             /\ pc \notin Terminal
                => html_server.serving = "running" /\ ~html_server.shutdown
       /\ html_server.shutdown => pc \in Terminal

\* C24 witness: a static call returned captures made on the published page
\* and its server was shut down after that.
C24_Witness ==
    /\ pc = "returned"
    /\ StaticDriverCalled
    /\ result # EmptyMap
    /\ hist.set_html_calls = 1
    /\ html_server.dynamic_html = ExportedHtml(STATIC_BASE_URL)
    /\ html_server.shutdown

\* control is in the capture driver
InDriver == pc \in {"drv_launch", "drv_goto", "drv_idle1", "drv_ready", "drv_idle2",
                    "loop", "t_scroll", "t_paint1", "t_idle1", "t_settle_dcl",
                    "t_settle_load", "t_settle_idle", "t_settle_quiet", "t_idle2",
                    "t_paint2", "t_slide", "t_paint3", "t_shot", "awaiting"}

\* the driver has returned its captures or raised
DriverFinished == drv.page_url # "" /\ ~InDriver

\* C25: whatever the page does, every wait of the capture driver resolves or
\* times out, so a driver that was called eventually returns or raises.
C25_DriverFinishes == InDriver ~> DriverFinished

\* the loop over the targets has ended and the driver has gone on
LoopLeft == drv.page_url # "" /\ drv.index = Len(drv.targets) /\ pc # "loop"

\* C26: once the last target has been processed, whichever way each target
\* ended (captured, skipped on a readiness timeout, skipped on a screenshot
\* timeout), the browser context and then the browser are closed, each
\* exactly once; neither is closed while a target is still to be processed.
C26_ClosedOnceAfterLastTarget ==
    /\ hist.closes \in {<<>>, <<"context", "browser">>}
    /\ LoopLeft
       => /\ hist.closes = <<"context", "browser">>
          /\ drv.context = "closed" /\ drv.browser = "closed"
          /\ \A k \in 1..Len(hist.outcomes) :
               hist.outcomes[k] \in {"captured"} \cup TimedOut
    /\ hist.closes # <<>> => LoopLeft
    /\ InDriver /\ pc \notin {"drv_launch", "awaiting"}
       => drv.context = "open" /\ drv.browser = "open"

\* C26 witness: of two targets one was skipped on a readiness timeout and the
\* other on a screenshot timeout, and the driver closed context and browser.
C26_Witness ==
    /\ pc = "returned"
    /\ Len(hist.outcomes) >= 2
    /\ \E i, j \in 1..Len(hist.outcomes) :
         hist.outcomes[i] = "ready_timeout" /\ hist.outcomes[j] = "shot_timeout"
    /\ hist.closes = <<"context", "browser">>

\* the page never showed a root element with rendered children
PageNeverReady == drv.page_ready = "timeout"

\* the live server's startup ended without a successful health check
NeverHealthy == StartupEnded /\ ~live.ready

SettleWaits == << "t_settle_dcl", "t_settle_load", "t_settle_idle",
                  "t_settle_quiet" >>

\* the waits of one loop body that reaches the screenshot, in the order of
\* the code of _wait_for_target_ready and of the loop
BodyWaits(target) ==
    << "t_visible", "t_scroll", "t_paint1", "t_idle1" >>
    \o (IF target.expects # <<>> THEN SettleWaits ELSE <<>>)
    \o << "t_idle2", "t_paint2", "t_slide", "t_paint3", "t_shot" >>

\* the waits of a body that come before the wait at
WaitsBefore(target, at) ==
    SubSeq(BodyWaits(target), 1,
           (CHOOSE k \in DOMAIN BodyWaits(target) :
                BodyWaits(target)[k] = at) - 1)

\* the elements of a sequence
Range(s) == { s[k] : k \in DOMAIN s }

\* s is an initial part of t
StartsWith(t, s) == Len(s) <= Len(t) /\ SubSeq(t, 1, Len(s)) = s

\* C28: the settle wait runs exactly once for a target with expectations and
\* never for a generic target, after the first network-idle wait and before
\* the final network-idle and paint wait; its load states are awaited in the
\* order domcontentloaded, load, networkidle, a timeout on one does not skip
\* the later ones, and the quiet period always follows.
C28_SettleOnceInOrder ==
    /\ drv.trail # <<>>
       => /\ drv.index < Len(drv.targets)
          /\ StartsWith(BodyWaits(Target), drv.trail)
          /\ pc \in Range(BodyWaits(Target))
             => drv.trail = WaitsBefore(Target, pc)
    /\ drv.settle_timeouts # {}
       => /\ Target.expects # <<>>
          /\ drv.settle_timeouts \subseteq Range(drv.trail)
    /\ drv.trail = <<>> => drv.settle_timeouts = {}
    /\ pc \in Range(SettleWaits) => Target.expects # <<>>

\* C28 witness: a target with expectations whose first two load states timed
\* out has been through all of the settle wait, quiet period included, and
\* through the final network-idle wait.
C28_Witness ==
    /\ pc = "t_paint2"
    /\ Target.expects # <<>>
    /\ drv.settle_timeouts = {"t_settle_dcl", "t_settle_load"}
    /\ drv.trail = WaitsBefore(Target, "t_paint2")

\* the readiness wait of the k-th target returned True and the loop body went
\* on to the screenshot: the body ended with or without a capture, or it is
\* the body in progress and is past the readiness wait
PassedReadiness(k) ==
    \/ k <= Len(hist.outcomes) /\ hist.outcomes[k] # "ready_timeout"
    \/ /\ k = drv.index + 1
       /\ k > Len(hist.outcomes)
       /\ "t_paint2" \in Range(drv.trail)

\* the k-th target is the one in progress, its readiness wait has returned
\* True and the next statement, the slide advance, has yet to run
SlidePending(k) == k = drv.index + 1 /\ pc = "t_slide"

\* the positions of the targets that passed the readiness wait, in order
ReadyPositions ==
    SelectSeq([k \in 1..Len(drv.targets) |-> k],
              LAMBDA k : PassedReadiness(k) /\ ~SlidePending(k))

\* C29: the slide advance is triggered exactly once for every target that
\* passed the readiness wait, before that target's screenshot, and never for
\* a target skipped on readiness timeout; the number of advances is the number
\* of ready targets and at least the number of captured targets.
C29_SlideOncePerReadyTarget ==
    /\ hist.slides = [j \in 1..Len(ReadyPositions) |->
                        drv.targets[ReadyPositions[j]].cell_id]
    /\ pc = "t_shot" => /\ hist.slides # <<>>
                        /\ hist.slides[Len(hist.slides)] = Target.cell_id
    /\ Len(hist.slides) >= Cardinality(DOMAIN captures)
    /\ \A c \in DOMAIN captures : c \in Range(hist.slides)

\* C29 witness: a run of three targets has ended; the first was skipped on
\* readiness timeout, the second advanced the deck and its screenshot timed
\* out, the third advanced the deck and was captured.
C29_Witness ==
    /\ LoopLeft
    /\ hist.outcomes = << "ready_timeout", "shot_timeout", "captured" >>
    /\ hist.slides = << drv.targets[2].cell_id, drv.targets[3].cell_id >>
    /\ Cardinality(DOMAIN captures) = 1

\* the cell ids of the targets whose loop body has ended
ProcessedIds == { drv.targets[k].cell_id : k \in 1..drv.index }

\* C30: throughout a run of the capture driver the keys of the result mapping
\* are cell ids of targets already processed, each key was written at most
\* once, and each value is a string that begins with "data:image/png;base64,";
\* at the end of the loop a target's cell id is a key exactly when its
\* readiness wait succeeded and its screenshot did not time out.
C30_CapturesOfProcessedTargets ==
    /\ DOMAIN captures \subseteq ProcessedIds
    /\ Range(hist.writes) = DOMAIN captures
    /\ \A i, j \in DOMAIN hist.writes : hist.writes[i] = hist.writes[j] => i = j
    /\ \A c \in DOMAIN captures :
         /\ StartsWith(captures[c], PNG_DATA_URL_PREFIX)
         /\ Len(captures[c]) > Len(PNG_DATA_URL_PREFIX)
    /\ LoopLeft
       => \A k \in 1..Len(drv.targets) :
            drv.targets[k].cell_id \in DOMAIN captures
            <=> hist.outcomes[k] \notin TimedOut

\* C30 witness: the loop over three targets has ended; the one skipped on
\* readiness timeout and the one whose screenshot timed out are not keys, the
\* captured one is.
C30_Witness ==
    /\ LoopLeft
    /\ hist.outcomes = << "captured", "ready_timeout", "shot_timeout" >>
    /\ DOMAIN captures = { drv.targets[1].cell_id }
    /\ hist.writes = << drv.targets[1].cell_id >>

(***************************************************************************)
(* C31..C36                                                                *)
(***************************************************************************)
\* the cells of the normalized copy, by value
CellsAfter == DeepValue(heap, capture_view.view).cells

\* the cell is a capture target
TargetCell(i) == view_before.cells[i].cell_id \in IdsOf(targets)

TextualTypes == { "text/html", "text/plain", "text/markdown" }

\* the cell's output before the call is a single part of textual type that
\* holds a component marker
TextualWithMarker(i) ==
    /\ view_before.cells[i].present
    /\ view_before.cells[i].output.mimetype \in TextualTypes
    /\ HasComponentMarker(view_before.cells[i].output.data)

\* the payload with every string of it HTML-unescaped
Unescaped(val) ==
    IF val.k \in {"str", "list"}
    THEN [val EXCEPT !.items =
            [j \in 1..Len(val.items) |->
                IF val.items[j].isstr
                THEN [val.items[j] EXCEPT !.s = unescape(@)]
                ELSE val.items[j]]]
    ELSE val

\* the cell's output is a bundle
BundleCell(i) ==
    /\ view_before.cells[i].present
    /\ view_before.cells[i].output.mimetype = "application/vnd.marimo+mimebundle"

\* C31: in the normalized copy a target whose single-part output is
\* text/html, text/plain or text/markdown and holds a component marker has
\* the mimetype text/html and its payload HTML-unescaped; every other output
\* that is not a bundle target (non-targets, chart-grammar single-part
\* targets) equals the original.
C31_TextualTargetsPromoted ==
    capture_view.made
    => /\ Len(CellsAfter) = Len(view_before.cells)
       /\ \A i \in CellsBefore :
            IF TargetCell(i) /\ TextualWithMarker(i)
            THEN /\ CellsAfter[i].cell_id = view_before.cells[i].cell_id
                 /\ CellsAfter[i].present
                 /\ CellsAfter[i].output.mimetype = "text/html"
                 /\ CellsAfter[i].output.data
                      = Unescaped(view_before.cells[i].output.data)
            ELSE ~(TargetCell(i) /\ BundleCell(i))
                 => CellsAfter[i] = view_before.cells[i]

\* C31 witness: a text/plain target whose payload is a list with an escaped
\* component marker is text/html and unescaped in the copy, next to a target
\* that the copy holds unchanged.
C31_Witness ==
    /\ capture_view.made
    /\ \E i \in CellsBefore :
        /\ TargetCell(i) /\ TextualWithMarker(i)
        /\ view_before.cells[i].output.mimetype = "text/plain"
        /\ view_before.cells[i].output.data.k = "list"
        /\ CellsAfter[i].output.data # view_before.cells[i].output.data
        /\ CellsAfter[i].output.mimetype = "text/html"
    /\ \E i \in CellsBefore :
        TargetCell(i) /\ CellsAfter[i] = view_before.cells[i]

\* the priority order of the parts a bundle is promoted from
PromotionOrder == << "text/html", "text/plain", "text/markdown" >>

\* the bundle has a part of that type whose content holds a component marker
MarkedPart(parts, mime) ==
    \E p \in 1..Len(parts) :
        parts[p].mime = mime /\ HasComponentMarker(parts[p].val)

\* the value of the bundle's part of that type
ValueOf(parts, mime) ==
    parts[CHOOSE p \in 1..Len(parts) : parts[p].mime = mime].val

\* the first type, in the priority order, whose part holds a component marker
PromotedFrom(parts) ==
    PromotionOrder[Least({ k \in 1..Len(PromotionOrder) :
                             MarkedPart(parts, PromotionOrder[k]) })]

\* the types of the parts of a bundle
TypesOf(parts) == { parts[p].mime : p \in 1..Len(parts) }

\* C32: for a bundle target, the first part in the priority order text/html,
\* text/plain, text/markdown whose content holds a component marker has its
\* unescaped content written into the bundle's text/html slot, all other
\* parts keep their values, and a bundle in which none of the three holds a
\* marker is left unchanged.
C32_BundlePromotedByPriority ==
    capture_view.made
    => \A i \in CellsBefore :
         TargetCell(i) /\ BundleCell(i)
         => IF \E k \in 1..Len(PromotionOrder) :
                  MarkedPart(PartsBefore(i), PromotionOrder[k])
            THEN /\ CellsAfter[i].output.mimetype
                      = "application/vnd.marimo+mimebundle"
                 /\ CellsAfter[i].output.data.k = "dict"
                 /\ TypesOf(CellsAfter[i].output.data.parts)
                      = TypesOf(PartsBefore(i)) \cup {"text/html"}
                 /\ Len(CellsAfter[i].output.data.parts)
                      = Cardinality(TypesOf(PartsBefore(i)) \cup {"text/html"})
                 /\ ValueOf(CellsAfter[i].output.data.parts, "text/html")
                      = Unescaped(ValueOf(PartsBefore(i),
                                          PromotedFrom(PartsBefore(i))))
                 /\ \A m \in TypesOf(PartsBefore(i)) \ {"text/html"} :
                      ValueOf(CellsAfter[i].output.data.parts, m)
                        = ValueOf(PartsBefore(i), m)
            ELSE CellsAfter[i] = view_before.cells[i]

\* C32 witness: a bundle target given as JSON text has a text/html part
\* without a marker and a text/plain part with an escaped one; in the copy
\* the text/html slot holds the unescaped text/plain content, and the
\* text/plain part is as it was.
C32_Witness ==
    /\ capture_view.made
    /\ \E i \in CellsBefore :
        /\ TargetCell(i) /\ BundleCell(i)
        /\ view_before.cells[i].output.data.k = "str"
        /\ "text/html" \in TypesOf(PartsBefore(i))
        /\ ~MarkedPart(PartsBefore(i), "text/html")
        /\ MarkedPart(PartsBefore(i), "text/plain")
        /\ ValueOf(CellsAfter[i].output.data.parts, "text/html")
             # ValueOf(PartsBefore(i), "text/plain")
        /\ ValueOf(CellsAfter[i].output.data.parts, "text/html")
             = Unescaped(ValueOf(PartsBefore(i), "text/plain"))
        /\ ValueOf(CellsAfter[i].output.data.parts, "text/plain")
             = ValueOf(PartsBefore(i), "text/plain")

\* the value begins with "data:image/png;base64,"
IsPngDataUrl(value) ==
    /\ Len(value) >= 3
    /\ value[1] = "data:" /\ value[2] = "image/png" /\ value[3] = ";base64,"

\* the value begins with "data:"
IsDataUrl(value) == value # <<>> /\ value[1] = "data:"

\* cell i is a code cell with a string id, a list of outputs and a value in
\* the fallback mapping
CellWithFallback(i) ==
    LET cell == injection.before.cells[i]
    IN  /\ cell.isdict
        /\ cell.cell_type = "code"
        /\ cell.id.isstr
        /\ cell.outputs.islist
        /\ cell.id.s \in DOMAIN injection.png_fallbacks

FallbackOf(i) == injection.png_fallbacks[injection.before.cells[i].id.s]

\* the image/png entries of the first display output of cell i after the call
PngAfter(i) ==
    LET shown == { d \in 1..Len(OutputsAfter(i)) :
                     /\ OutputsAfter(i)[d].isdict
                     /\ OutputsAfter(i)[d].output_type
                          \in {"display_data", "execute_result"} }
        first == OutputsAfter(i)[Least(shown)]
    IN  IF shown = {} \/ first.data.k # "dict" THEN {}
        ELSE { first.data.parts[p].val :
                 p \in { p \in 1..Len(first.data.parts) :
                           first.data.parts[p].mime = "image/png" } }

\* the cells whose fallback value the injector takes
Accepted ==
    { i \in NbCells : CellWithFallback(i)
                      /\ \/ IsPngDataUrl(FallbackOf(i))
                         \/ FallbackOf(i) # <<>> /\ ~IsDataUrl(FallbackOf(i)) }

\* C33: a fallback value that begins with "data:image/png;base64," is
\* injected with the prefix taken off; a value with no "data:" prefix is
\* injected as it is; a data URL of any other type, or an empty value, is
\* skipped: the cell is unchanged and is not counted.
C33_FallbackValueShapes ==
    injection.done
    => /\ \A i \in NbCells :
            CellWithFallback(i)
            => IF IsPngDataUrl(FallbackOf(i))
               THEN PngAfter(i)
                      = { PyStr(SubSeq(FallbackOf(i), 4, Len(FallbackOf(i)))) }
               ELSE IF FallbackOf(i) # <<>> /\ ~IsDataUrl(FallbackOf(i))
               THEN PngAfter(i) = { PyStr(FallbackOf(i)) }
               ELSE notebook.cells[i] = injection.before.cells[i]
       /\ injection.injected_count = Cardinality(Accepted)

\* C33 witness: of two code cells, one had a PNG data URL and holds its
\* payload without the prefix, the other had a data URL of another type and
\* is as it was; one injection is counted.
C33_Witness ==
    /\ injection.done
    /\ injection.injected_count = 1
    /\ \E i, j \in NbCells :
        /\ CellWithFallback(i) /\ IsPngDataUrl(FallbackOf(i))
        /\ Len(FallbackOf(i)) > 3
        /\ PngAfter(i) = { PyStr(SubSeq(FallbackOf(i), 4, Len(FallbackOf(i)))) }
        /\ CellWithFallback(j) /\ IsDataUrl(FallbackOf(j))
        /\ ~IsPngDataUrl(FallbackOf(j))
        /\ notebook.cells[j] = injection.before.cells[j]

\* the MIME type is neither textual nor a chart grammar: a part of that type
\* is never eligible, whatever its content
IneligibleType(mime) == mime \notin TextualTypes \cup VEGA_MIME_TYPES

\* the tags of the target of cell i
TagsOf(i) ==
    UNION { Range(Classified[k].expects) :
              k \in { k \in 1..Len(Classified) :
                        Classified[k].cell_id = view_before.cells[i].cell_id } }

\* C34: in a bundle that gives a target, a widget marker or an embedded
\* chart-grammar marker in a part of ineligible type adds its tag to the
\* target; a single-part output of an ineligible type gives no target,
\* whatever markers its content holds.
C34_TagsFromIneligibleParts ==
    ClassifierReturned /\ options.enabled
    => \A i \in CellsBefore :
         NonEmptyBefore(i)
         => IF BundleCell(i)
            THEN view_before.cells[i].cell_id \in IdsOf(Classified)
                 => \A p \in 1..Len(PartsBefore(i)) :
                      IneligibleType(PartsBefore(i)[p].mime)
                      => /\ HasWidgetMarker(PartsBefore(i)[p].val)
                            => "anywidget" \in TagsOf(i)
                         /\ HasVegaMarker(PartsBefore(i)[p].val)
                            => "vega" \in TagsOf(i)
            ELSE IneligibleType(view_before.cells[i].output.mimetype)
                 => view_before.cells[i].cell_id \notin IdsOf(Classified)

\* C34 witness: a bundle of a chart part without markers and an image/svg+xml
\* part with a widget marker gave a target tagged chart and widget.
C34_Witness ==
    /\ pc = "sort"
    /\ \E i \in CellsBefore :
        /\ BundleCell(i)
        /\ Len(PartsBefore(i)) = 2
        /\ \E p, q \in 1..2 :
            /\ PartsBefore(i)[p].mime \in VEGA_MIME_TYPES
            /\ ~HasWidgetMarker(PartsBefore(i)[p].val)
            /\ PartsBefore(i)[q].mime = "image/svg+xml"
            /\ HasWidgetMarker(PartsBefore(i)[q].val)
        /\ TagsOf(i) = {"anywidget", "vega"}

\* a single-part image/svg+xml output with a widget marker gave no target
C34_SingleWitness ==
    /\ pc = "sort"
    /\ \E i \in CellsBefore :
        /\ view_before.cells[i].present
        /\ view_before.cells[i].output.mimetype = "image/svg+xml"
        /\ HasWidgetMarker(view_before.cells[i].output.data)
        /\ view_before.cells[i].cell_id \notin IdsOf(Classified)

RECURSIVE B64Decode(_)
\* the bytes a base64 text stands for
B64Decode(chars) ==
    IF Len(chars) < 4 THEN <<>>
    ELSE LET v(k) == IF chars[k] = "=" THEN 0
                     ELSE (CHOOSE n \in 1..64 : B64Chars[n] = chars[k]) - 1
             b1 == v(1) * 4 + v(2) \div 16
             b2 == (v(2) % 16) * 16 + v(3) \div 4
             b3 == (v(3) % 4) * 64 + v(4)
         IN  (IF chars[3] = "=" THEN << b1 >>
              ELSE IF chars[4] = "=" THEN << b1, b2 >>
              ELSE << b1, b2, b3 >>)
             \o B64Decode(SubSeq(chars, 5, Len(chars)))

\* the cells of the notebook with that id
CellsWithId(id) ==
    { i \in NbCells : /\ injection.before.cells[i].isdict
                      /\ injection.before.cells[i].id.isstr
                      /\ injection.before.cells[i].id.s = id }

\* C35: every value the capture driver puts in its result is accepted by the
\* injector: for all image bytes b, taking the data-URL prefix off
\* _to_data_url(b) gives exactly the base64 encoding of b and never the
\* rejected payload None.
C35_DriverValuesAccepted ==
    \A id \in DOMAIN injection.images :
        LET b == injection.images[id]
            payload == _to_png_payload(_to_data_url(b))
        IN  /\ injection.png_fallbacks[id] = _to_data_url(b)
            /\ ~payload.isnone
            /\ payload.s = b64encode(b)
            /\ Len(payload.s) = 4 * ((Len(b) + 2) \div 3)
            /\ B64Decode(payload.s) = b
            /\ injection.done
               => \A i \in CellsWithId(id) :
                    CellWithFallback(i) => PngAfter(i) = { PyStr(b64encode(b)) }

\* C35 witness: a screenshot of two bytes went through the driver's data URL
\* into a code cell, which holds its padded base64 text as image/png.
C35_Witness ==
    /\ injection.done
    /\ injection.injected_count >= 1
    /\ \E id \in DOMAIN injection.images :
        /\ Len(injection.images[id]) = 2
        /\ \E i \in CellsWithId(id) :
            /\ CellWithFallback(i)
            /\ PngAfter(i) = { PyStr(b64encode(injection.images[id])) }
            /\ B64Decode(b64encode(injection.images[id])) = injection.images[id]

\* C36: injection is idempotent: injecting the same mapping a second time
\* returns the same count and leaves the notebook as the first injection left
\* it; no second display output is appended and no further part is removed.
C36_InjectionIdempotent ==
    injection.again
    => /\ notebook = injection.first.notebook
       /\ injection.injected_count = injection.first.injected_count

\* C36 witness: the first call changed the notebook, appending a display
\* output to a cell that had none and taking replaced parts out of another's
\* display output, and the second call has returned.
C36_Witness ==
    /\ injection.again
    /\ injection.injected_count = 2
    /\ \E i, j \in NbCells :
        /\ CellWithFallback(i) /\ CellWithFallback(j)
        /\ Len(injection.first.notebook.cells[i].outputs.items)
             = Len(OutputsBefore(i)) + 1
        /\ Len(OutputsAfter(i)) = Len(OutputsBefore(i)) + 1
        /\ Len(OutputsAfter(j)) = Len(OutputsBefore(j))
        /\ \E d \in 1..Len(OutputsBefore(j)) :
            /\ OutputsBefore(j)[d].data.k = "dict"
            /\ OutputsAfter(j)[d].data.k = "dict"
            /\ Len(OutputsAfter(j)[d].data.parts)
                 < Len(OutputsBefore(j)[d].data.parts)

=============================================================================
